---- MODULE Spec2Model ----
(***************************************************************************)
(* Model of the building reconstruction engine of app/build3d.py:          *)
(* Build3d.get_pointcloud, Build3d.make_objfiles and the Surface class,    *)
(* as driven by the handler get_obj3d of app/api.py.                       *)
(*                                                                         *)
(* Lengths are integers in tenths of a metre, so 999.9 is 9999, 10.0 is    *)
(* 100 and 1.0 is 10; grid sizes are integers in micrometres, so 0.01 is   *)
(* 10000.  The faces of the catalogued buildings are                       *)
(* axis-aligned rectangles, for which every vector of                      *)
(* Surface.calc_basic_metrics has a single non-zero component and the      *)
(* projection is exact in integer arithmetic.  Face numbers, matrix rows   *)
(* and point indices are 0-based as in the source.                         *)
(***************************************************************************)
EXTENDS Integers, Sequences, FiniteSets, TLC

VARIABLES
    db,              \* the rows of the building in the database, or NoBuilding
    building,        \* Build3d.building: face number -> ring of 3D vertices
    lod,             \* Build3d.lod
    method,          \* texture_mapping_method of make_objfiles
    imagesize,       \* imagesize of make_objfiles
    lasdata,         \* the points read_lasfiles finds in the LAS files
    limit,           \* get_obj3d: the parsed limit, until get_pointcloud
                     \* has returned (it is not read afterwards)
    pcd,             \* Build3d.pcd: [loaded, points]
    gridsize,        \* Build3d.gridsize
    pc,              \* position of the job in get_obj3d / make_objfiles
    surfaces,        \* make_objfiles: per face, twice Surface.area
    n,               \* index of the face loop that is running
    all_vertices,    \* make_objfiles: global vertex list
    face_vertices,   \* make_objfiles: per face, positions in all_vertices
    nkmap,           \* make_objfiles: face number -> matrix row, or None
    distance_matrix, \* list_of_distances, then distance_matrix
    nearest_face,    \* make_objfiles: [isarray, val]
    masks,           \* per face, the mask handed to create_texture_image
    zranges,         \* per face, z_range of the smart method (or <<>>)
    painted,         \* per face, filtered_points of create_texture_image
    gridsizes,       \* per face, gridsize of create_texture_image
    texture_images,  \* make_objfiles: per face, the texture name
    files,           \* names of the files in Build3d.dirname
    saves,           \* number of times no_texture.png was saved
    objfile,         \* records written to <prefix>.obj
    mtlfile,         \* records written to <prefix>.mtl
    response,        \* what get_obj3d returns: [status, error, archive]
    jobs,            \* concurrent jobs in create_texture_image (SpecJobs)
    rlimit,          \* the RLIMIT_DATA of the process: [soft, hard]
    requests,        \* concurrent requests in limit_resource (SpecLimits)
    matching,        \* a run of match_features_generator (SpecMatch)
    raster,          \* a rasterization in create_texture_image (SpecRaster)
    sheet            \* a call of zukaku.get_code (SpecSheet)

vars == <<db, building, lod, method, imagesize, lasdata, limit, pcd, gridsize,
          pc, surfaces, n, all_vertices, face_vertices, nkmap,
          distance_matrix, nearest_face, masks, zranges, painted, gridsizes,
          texture_images, files, saves, objfile, mtlfile, response, jobs,
          rlimit, requests, matching, raster, sheet>>

\* the state of one job and of its request
jobvars == <<db, building, lod, method, imagesize, lasdata, limit, pcd,
             gridsize, pc, surfaces, n, all_vertices, face_vertices, nkmap,
             distance_matrix, nearest_face, masks, zranges, painted,
             gridsizes, texture_images, objfile, mtlfile, response>>

\* the inputs of the request and what the engine never writes
fixed == <<db, lod, lasdata, jobs, rlimit, requests, matching, raster, sheet>>

\* the operations that are no part of a request of get_obj3d
others == <<matching, raster, sheet>>

\* none of them has been called
OthersIdle ==
    /\ matching = [at |-> "idle"]
    /\ raster = [at |-> "idle"]
    /\ sheet = [at |-> "idle"]

-----------------------------------------------------------------------------
(* Bounds of the model *)

MaxPoints == 2
MaxJobs == 2
MaxGrayFaces == 2
MaxRounds == 32

(* Program constants, in tenths of a metre *)

Sentinel == 9999
ProximityLimit == 100
NearestCut == 9990
ZMinLow == -100
ZMinHigh == -10
ZMaxLow == 10
BUFFER == 10
AxisMax == 3000
LIMIT_POINTS == 500000

(* Program constants, in micrometres, in pixels and in MiB *)

GRIDSIZE == 10000
DEFAULT_IMAGESIZE == 1024
RequestImageSize == 512
MAX_MEMORY == 2048

None == -1

\* self.building before get_building has found the building; the database
\* lookup returns None when it finds no row
NoBuilding == << >>

-----------------------------------------------------------------------------
(* Integer and vector helpers (numpy) *)

Abs(x) == IF x < 0 THEN -x ELSE x

SetMin(S) == CHOOSE x \in S : \A y \in S : x <= y

SetMax(S) == CHOOSE x \in S : \A y \in S : x >= y

Sub(a, b) == <<a[1] - b[1], a[2] - b[2], a[3] - b[3]>>

Dot(a, b) == a[1] * b[1] + a[2] * b[2] + a[3] * b[3]

Cross(a, b) == <<a[2] * b[3] - a[3] * b[2],
                 a[3] * b[1] - a[1] * b[3],
                 a[1] * b[2] - a[2] * b[1]>>

\* np.linalg.norm of a vector with a single non-zero component
Norm(v) == Abs(v[1]) + Abs(v[2]) + Abs(v[3])

Unit(v) == <<v[1] \div Norm(v), v[2] \div Norm(v), v[3] \div Norm(v)>>

Range(f) == {f[i] : i \in DOMAIN f}

-----------------------------------------------------------------------------
(* The buildings of the catalogue: closed boxes, bottom first, top last,   *)
(* every ring wound so that the normal points outwards.                    *)

Box(W, D, H) ==
    0 :> <<<<0, 0, 0>>, <<0, D, 0>>, <<W, D, 0>>, <<W, 0, 0>>>> @@
    1 :> <<<<0, 0, 0>>, <<W, 0, 0>>, <<W, 0, H>>, <<0, 0, H>>>> @@
    2 :> <<<<W, 0, 0>>, <<W, D, 0>>, <<W, D, H>>, <<W, 0, H>>>> @@
    3 :> <<<<W, D, 0>>, <<0, D, 0>>, <<0, D, H>>, <<W, D, H>>>> @@
    4 :> <<<<0, D, 0>>, <<0, 0, 0>>, <<0, 0, H>>, <<0, D, H>>>> @@
    5 :> <<<<0, 0, H>>, <<W, 0, H>>, <<W, D, H>>, <<0, D, H>>>>

Buildings == {Box(120, 40, 30), Box(20, 20, 20)}

\* Candidate LAS points; a cloud is a subsequence of this list.
CandidatePoints ==
    << <<-1, 20, 15>>,     \* just outside the wall x = 0
       <<3, 2, 15>>,       \* inside, nearest the wall y = 0
       <<2, 3, 15>>,       \* inside, nearest the wall x = 0
       <<5, 5, 15>>,       \* inside, equidistant from two walls
       <<20, 20, 35>>,     \* above the top, inside the footprint
       <<10, 10, 1>>,      \* just above the bottom
       <<125, 45, 15>>,    \* beyond a corner of the larger box
       <<21, 10, 10>>,     \* 0.1 m outside the wall x = 2 m of the cube
       <<10, 10, 500>>,    \* far above the building
       <<300, 300, 15>>    \* outside the buffered footprint
    >>

Methods == {"all", "nearest", "smart"}

nfaces == Cardinality(DOMAIN building)

npoints == Len(pcd.points)

PointIds == 0 .. (npoints - 1)

FaceIds == 0 .. (nfaces - 1)

\* the point with 0-based index p
Point(p) == pcd.points[p + 1]

-----------------------------------------------------------------------------
(* Surface.calc_basic_metrics *)

origin(f) == building[f][1]

\* vertices - self.origin
ShiftedVertices(f) ==
    [i \in 1 .. Len(building[f]) |-> Sub(building[f][i], origin(f))]

\* the columns u0, u1, u2 of Surface.projection_matrix
projection_matrix(f) ==
    LET vs == ShiftedVertices(f)
        v0 == Sub(vs[2], vs[1])
        v1 == Sub(vs[Len(vs)], vs[1])
        v2 == Cross(v0, v1)
        w1 == Cross(v2, v0)
    IN  <<Unit(v0), Unit(w1), Unit(v2)>>

\* np.matmul(x, projection_matrix) for one row x
MatMul(x, M) == <<Dot(x, M[1]), Dot(x, M[2]), Dot(x, M[3])>>

projected_vertices(f) ==
    [i \in 1 .. Len(building[f]) |->
        MatMul(ShiftedVertices(f)[i], projection_matrix(f))]

\* [minx, miny, maxx, maxy]
boundary(f) ==
    LET xs == {projected_vertices(f)[i][1] : i \in 1 .. Len(building[f])}
        ys == {projected_vertices(f)[i][2] : i \in 1 .. Len(building[f])}
    IN  <<SetMin(xs), SetMin(ys), SetMax(xs), SetMax(ys)>>

(* Surface.get_projected_points: point index -> (x, y, z) in the face frame *)
get_projected_points(f) ==
    [p \in PointIds |-> MatMul(Sub(Point(p), origin(f)), projection_matrix(f))]

\* outbound_mask of get_distance_matrix
Outbound(f, p) ==
    LET b == boundary(f)
        q == get_projected_points(f)[p]
    IN  q[1] < b[1] \/ q[1] > b[3] \/ q[2] < b[2] \/ q[2] > b[4]

(* Surface.get_distance_matrix: |z| plus 999.9 for a point out of bounds *)
get_distance_matrix(f) ==
    [p \in PointIds |->
        Abs(get_projected_points(f)[p][3])
            + (IF Outbound(f, p) THEN Sentinel ELSE 0)]

-----------------------------------------------------------------------------
(* Build3d.get_pointcloud: crop_las and Build3d.crop_point_cloud *)

\* building.total_bounds: [minx, miny, maxx, maxy] over all vertices
total_bounds ==
    LET vs == UNION {Range(building[f]) : f \in FaceIds}
    IN  <<SetMin({v[1] : v \in vs}), SetMin({v[2] : v \in vs}),
          SetMax({v[1] : v \in vs}), SetMax({v[2] : v \in vs})>>

\* mask of read_lasfiles: inside total_bounds widened by BUFFER
InLasBoundary(v) ==
    LET b == total_bounds
    IN  /\ v[1] >= b[1] - BUFFER /\ v[1] <= b[3] + BUFFER
        /\ v[2] >= b[2] - BUFFER /\ v[2] <= b[4] + BUFFER

\* the prism of crop_point_cloud: within BUFFER of the floor polygon (the
\* rectangle of the box) and between axis_min = 0 and axis_max = 300
InPrism(v) ==
    LET b == total_bounds
        dx == IF v[1] < b[1] THEN b[1] - v[1]
              ELSE IF v[1] > b[3] THEN v[1] - b[3] ELSE 0
        dy == IF v[2] < b[2] THEN b[2] - v[2]
              ELSE IF v[2] > b[4] THEN v[2] - b[4] ELSE 0
    IN  /\ dx * dx + dy * dy <= BUFFER * BUFFER
        /\ v[3] >= 0 /\ v[3] <= AxisMax

crop_point_cloud(points) ==
    SelectSeq(points, LAMBDA v : InLasBoundary(v) /\ InPrism(v))

-----------------------------------------------------------------------------
(* File names in Build3d.dirname *)

NoTexture == [name |-> "no_texture.png", face |-> None]

FaceTexture(f) == [name |-> "prefix_nnn.png", face |-> f]

ObjFile == [name |-> "prefix.obj", face |-> None]

MtlFile == [name |-> "prefix.mtl", face |-> None]

-----------------------------------------------------------------------------
(* The state after Build3d.__init__ and set_dirname *)

\* the subsequence of CandidatePoints at the positions S
SubSeqAt(S) ==
    [i \in 1 .. Cardinality(S) |->
        CandidatePoints[CHOOSE j \in S : Cardinality({m \in S : m < j}) = i - 1]]

Clouds ==
    {SubSeqAt(S) : S \in {T \in SUBSET (1 .. Len(CandidatePoints)) :
                              Cardinality(T) <= MaxPoints}}

\* get_obj3d has not returned yet
NoResponse == [status |-> 0, body |-> "", archive |-> FALSE]

\* the locals of make_objfiles before it runs and after it is left
NoLocals ==
    /\ n = 0
    /\ surfaces = <<>>
    /\ all_vertices = <<>>
    /\ face_vertices = <<>>
    /\ nkmap = <<>>
    /\ distance_matrix = <<>>
    /\ nearest_face = [isarray |-> FALSE, val |-> <<>>]
    /\ masks = <<>>
    /\ zranges = <<>>
    /\ painted = <<>>
    /\ gridsizes = <<>>
    /\ texture_images = <<>>
    /\ objfile = <<>>
    /\ mtlfile = <<>>

\* the locals of make_objfiles, as a tuple of variables
locals == <<n, surfaces, all_vertices, face_vertices, nkmap, distance_matrix,
            nearest_face, masks, zranges, painted, gridsizes, texture_images,
            objfile, mtlfile>>

\* the size parameter of get_obj3d: its default, and the default of Surface
ImageSizes == {RequestImageSize, DEFAULT_IMAGESIZE}

\* the fields of a new Build3d and the request that made it
InitJob ==
    /\ building = NoBuilding
    /\ lod \in {1, 2}
    /\ method \in Methods
    /\ imagesize \in ImageSizes
    /\ lasdata \in Clouds
    /\ limit = << >>
    /\ pcd = [loaded |-> FALSE, points |-> <<>>]
    /\ gridsize = GRIDSIZE
    /\ pc = "start"
    /\ NoLocals
    /\ response = NoResponse

Init ==
    /\ InitJob
    /\ db \in Buildings \cup {NoBuilding}
    /\ files = {}
    /\ saves = 0
    /\ jobs = <<>>
    /\ rlimit = [soft |-> 2 * MAX_MEMORY, hard |-> 2 * MAX_MEMORY]
    /\ requests = <<>>
    /\ OthersIdle

-----------------------------------------------------------------------------
(* get_obj3d, lines 410-424: the limit parameter.  A text is a sequence of  *)
(* characters.                                                              *)

Digit == ("0" :> 0) @@ ("1" :> 1) @@ ("2" :> 2) @@ ("3" :> 3) @@ ("4" :> 4)
         @@ ("5" :> 5) @@ ("6" :> 6) @@ ("7" :> 7) @@ ("8" :> 8) @@ ("9" :> 9)

\* the value of the digits of text from position i on, acc being the value
\* of those before
RECURSIVE DigitsValue(_, _, _)
DigitsValue(text, i, acc) ==
    IF i > Len(text) THEN acc
    ELSE DigitsValue(text, i + 1, 10 * acc + Digit[text[i]])

\* int(text): an optional sign and at least one digit, or ValueError
IntOf(text) ==
    LET signed == Len(text) >= 1 /\ text[1] \in {"-", "+"}
        first == IF signed THEN 2 ELSE 1
    IN  IF /\ first <= Len(text)
           /\ \A i \in first .. Len(text) : text[i] \in DOMAIN Digit
        THEN [ok |-> TRUE,
              val |-> IF signed /\ text[1] = "-"
                      THEN 0 - DigitsValue(text, first, 0)
                      ELSE DigitsValue(text, first, 0)]
        ELSE [ok |-> FALSE, val |-> 0]

\* lines 416-421
parse_limit(text) ==
    LET last == IF Len(text) = 0 THEN "" ELSE text[Len(text)]
        head == IF Len(text) = 0 THEN text ELSE SubSeq(text, 1, Len(text) - 1)
    IN  IF last \in {"k", "K"}
        THEN [ok |-> IntOf(head).ok, val |-> IntOf(head).val * 1000]
        ELSE IF last \in {"m", "M"}
        THEN [ok |-> IntOf(head).ok, val |-> IntOf(head).val * 1000000]
        ELSE IntOf(text)

\* the texts of the limit parameter: the default "10k" first
LimitTexts == { <<"1", "0", "k">>, <<"1">>, <<"0">>, <<"-", "1">>,
                <<"a">>, <<"k">> }

\* the exceptions, with the text that str(e) gives: int() of a bad literal,
\* get_building line 111, calc_basic_metrics line 645, and an allocation
\* that fails with a text (numpy) or without one (the interpreter)
ValueError == [class |-> "ValueError", args |-> "invalid literal for int()"]

BuildingNotFound == [class |-> "RuntimeError", args |-> "building not found"]

VerticesOverlapping ==
    [class |-> "RuntimeError", args |-> "Wall vertices are overlapping."]

MemoryErrors == {[class |-> "MemoryError", args |-> ""],
                 [class |-> "MemoryError", args |-> "Unable to allocate"]}

\* return str(e), 400 of the handlers of get_obj3d
ErrorResponse(e) == [status |-> 400, body |-> e.args, archive |-> FALSE]

\* what the server answers when an exception leaves get_obj3d
Crash(e) == [status |-> 500, body |-> "Internal Server Error",
             archive |-> FALSE]

\* the request is answered with r while it holds the temporary directory:
\* the locals are gone and the directory is removed with its files
Leave(at, r) ==
    /\ pc' = at
    /\ response' = r
    /\ n' = 0
    /\ surfaces' = <<>>
    /\ all_vertices' = <<>>
    /\ face_vertices' = <<>>
    /\ nkmap' = <<>>
    /\ distance_matrix' = <<>>
    /\ nearest_face' = [isarray |-> FALSE, val |-> <<>>]
    /\ masks' = <<>>
    /\ zranges' = <<>>
    /\ painted' = <<>>
    /\ gridsizes' = <<>>
    /\ texture_images' = <<>>
    /\ objfile' = <<>>
    /\ mtlfile' = <<>>
    /\ files' = {}
    /\ UNCHANGED <<building, method, imagesize, limit, pcd, gridsize, saves>>
    /\ UNCHANGED fixed

ParseLimit ==
    /\ pc = "start"
    /\ \E text \in LimitTexts :
          IF parse_limit(text).ok
          THEN /\ limit' = <<parse_limit(text).val>>
               /\ pc' = "get_building"
               /\ UNCHANGED <<building, method, imagesize, pcd, gridsize,
                              files, saves, response>>
               /\ UNCHANGED locals
               /\ UNCHANGED fixed
          ELSE Leave("error", ErrorResponse(ValueError))

-----------------------------------------------------------------------------
(* Build3d.get_building, lines 94-119 *)

\* line 104
BuildingCached == building # NoBuilding

\* variant: a lookup without a row is not noticed
NotFoundNever(row) == FALSE

\* line 110 (database.py line 120: no row gives None)
NotFound(row) == row = NoBuilding

\* the call when the database holds row: what is raised, and self.building
\* afterwards
get_building(row) ==
    IF BuildingCached THEN [raised |-> FALSE, building |-> building]
    ELSE IF NotFound(row) THEN [raised |-> TRUE, building |-> building]
    ELSE [raised |-> FALSE, building |-> row]

\* the first call, line 391 of get_pointcloud as called at api.py line 440;
\* RuntimeError is handled at api.py lines 441-442
GetBuilding ==
    /\ pc = "get_building"
    /\ IF get_building(db).raised
       THEN Leave("error", ErrorResponse(BuildingNotFound))
       ELSE /\ building' = get_building(db).building
            /\ pc' = "get_pointcloud"
            /\ UNCHANGED <<method, imagesize, limit, pcd, gridsize, files,
                           saves, response>>
            /\ UNCHANGED locals
            /\ UNCHANGED fixed

\* the job has its building and has not been left
Running ==
    pc \in {"get_pointcloud", "make_objfiles", "texture_all", "distances",
            "texture_nearest", "texture_smart", "write_mtl", "done"}

\* a later call (make_objfiles line 144, Surface.__init__ line 584), when the
\* row is still there and when it has been deleted meanwhile
GetBuildingAgain ==
    /\ Running
    /\ \E row \in {db, NoBuilding} :
          IF get_building(row).raised
          THEN Leave("crashed", Crash(BuildingNotFound))
          ELSE /\ building' = get_building(row).building
               /\ UNCHANGED <<method, imagesize, limit, pcd, gridsize, pc,
                              files, saves, response>>
               /\ UNCHANGED locals
               /\ UNCHANGED fixed

-----------------------------------------------------------------------------
(* Build3d.get_pointcloud, lines 385-433 *)

\* PointCloud.voxel_down_sample: the voxel of point v in a grid of edge g
\* (micrometres) whose origin is the minimum bound minus half an edge
VoxelIndex(points, g, v) ==
    [a \in 1 .. 3 |->
        (200000 * (v[a] - SetMin({points[i][a] : i \in 1 .. Len(points)})) + g)
            \div (2 * g)]

RECURSIVE SumOf(_, _, _)
SumOf(points, S, a) ==
    IF S = {} THEN 0
    ELSE LET i == CHOOSE j \in S : TRUE
         IN  points[i][a] + SumOf(points, S \ {i}, a)

\* one point per occupied voxel, the mean of the points in it (cut to the
\* tenth of a metre), the voxels in the order of their first point
voxel_down_sample(points, g) ==
    LET idx == [i \in 1 .. Len(points) |-> VoxelIndex(points, g, points[i])]
        firsts == {i \in 1 .. Len(points) :
                      \A j \in 1 .. (i - 1) : idx[j] # idx[i]}
        nth(k) == CHOOSE i \in firsts :
                      Cardinality({j \in firsts : j < i}) = k - 1
        members(i) == {j \in 1 .. Len(points) : idx[j] = idx[i]}
    IN  [k \in 1 .. Cardinality(firsts) |->
            [a \in 1 .. 3 |->
                SumOf(points, members(nth(k)), a)
                    \div Cardinality(members(nth(k)))]]

\* line 430: gridsize *= 1.41421356, cut to the micrometre
MulSqrt2(g) ==
    g + (g \div 10000) * 4142 + ((g % 10000) * 4142) \div 10000
      + ((g \div 10000) * 1356) \div 10000

\* variant: a limit of zero is a limit, too
LoopTestFromZero(limit_points, down_pcd) ==
    limit_points >= 0 /\ Len(down_pcd) > limit_points

\* line 424
LoopTest(limit_points, down_pcd) ==
    limit_points > 0 /\ Len(down_pcd) > limit_points

\* lines 424-430, from the state of the locals before a test of the loop;
\* self_gridsize is self.gridsize; the loop is given up after MaxRounds
RECURSIVE DownsampleLoop(_, _, _, _, _, _)
DownsampleLoop(cropped, down_pcd, g, self_gridsize, limit_points, rounds) ==
    IF ~LoopTest(limit_points, down_pcd)
    THEN [points |-> down_pcd, gridsize |-> self_gridsize, returns |-> TRUE]
    ELSE IF rounds = MaxRounds
    THEN [points |-> down_pcd, gridsize |-> self_gridsize, returns |-> FALSE]
    ELSE DownsampleLoop(cropped, voxel_down_sample(cropped, g), MulSqrt2(g),
                        g, limit_points, rounds + 1)

\* variant: the cloud is loaded again on every call
CloudCachedNever == FALSE

\* line 385
CloudCached == pcd.loaded

\* lines 388-389, the omitted argument being << >>
EffectiveLimit(l) == IF l = << >> THEN LIMIT_POINTS ELSE l[1]

\* the call with limit_points = l when the LAS files hold the points las
get_pointcloud(l, las) ==
    IF CloudCached
    THEN [points |-> pcd.points, gridsize |-> gridsize, returns |-> TRUE]
    ELSE DownsampleLoop(crop_point_cloud(las), crop_point_cloud(las),
                        GRIDSIZE, gridsize, EffectiveLimit(l), 0)

\* the first call, api.py line 440
GetPointcloud ==
    /\ pc = "get_pointcloud"
    /\ \E r \in {get_pointcloud(limit, lasdata)} :
          /\ pcd' = [loaded |-> r.returns, points |-> r.points]
          /\ gridsize' = r.gridsize
          /\ pc' = IF r.returns THEN "make_objfiles" ELSE "looping"
    /\ limit' = << >>
    /\ UNCHANGED <<building, method, imagesize, files, saves, response>>
    /\ UNCHANGED locals
    /\ UNCHANGED fixed

\* the points the LAS files of a later call may hold
LaterLas == {lasdata, << >>}

\* a later call (api.py line 444, make_objfiles line 151, Surface lines 683
\* and 759), with any arguments
GetPointcloudAgain ==
    /\ Running
    /\ pc # "get_pointcloud"
    /\ \E l \in {<< >>, <<1>>, <<0>>}, las \in LaterLas :
          \E r \in {get_pointcloud(l, las)} :
              /\ pcd' = [loaded |-> r.returns, points |-> r.points]
              /\ gridsize' = r.gridsize
              /\ pc' = IF r.returns THEN pc ELSE "looping"
    /\ UNCHANGED <<building, method, imagesize, limit, files, saves,
                   response>>
    /\ UNCHANGED locals
    /\ UNCHANGED fixed

-----------------------------------------------------------------------------
(* make_objfiles, lines 158-179: the global vertex list *)

\* variant: the lookup never finds the vertex, so every one is appended
VertexIndexNever(av, v) == None

\* all_vertices.index(v), 0-based; None stands for ValueError
VertexIndex(av, v) ==
    IF \E i \in 1 .. Len(av) : av[i] = v
    THEN (CHOOSE i \in 1 .. Len(av) :
              av[i] = v /\ \A j \in 1 .. (i - 1) : av[j] # v) - 1
    ELSE None

\* one pass of the inner loop over ring[:-1], from vertex i on
RECURSIVE RingLoop(_, _, _, _)
RingLoop(av, vertices, ring, i) ==
    IF i > Len(ring) THEN [av |-> av, vertices |-> vertices]
    ELSE LET found == VertexIndex(av, ring[i])
             pos == IF found = None THEN Len(av) ELSE found
             av2 == IF found = None THEN Append(av, ring[i]) ELSE av
         IN  RingLoop(av2, Append(vertices, pos), ring, i + 1)

\* the outer loop over the faces, from face f on
RECURSIVE FaceLoop(_, _, _)
FaceLoop(av, fv, f) ==
    IF f = nfaces THEN [av |-> av, fv |-> fv]
    ELSE LET r == RingLoop(av, <<>>, building[f], 1)
         IN  FaceLoop(r.av, fv @@ (f :> r.vertices), f + 1)

\* twice the area of the ring of projected vertices (shoelace formula), the
\* area that shapely.geometry.Polygon(...).area gives being half of it
Area2(f) ==
    LET q == projected_vertices(f)
        m == Len(q)
        nxt(i) == IF i = m THEN 1 ELSE i + 1
        RECURSIVE Sum(_)
        Sum(i) == IF i > m THEN 0
                  ELSE q[i][1] * q[nxt(i)][2] - q[nxt(i)][1] * q[i][2]
                       + Sum(i + 1)
    IN  Abs(Sum(1))

\* lines 641-645: shapely.geometry.Polygon raises ValueError for a ring of
\* fewer than three vertices, and for nothing else
PolygonRaises(f) == Len(building[f]) < 3

\* lines 144-179: the prefix, the Surface of every face and the vertex lists
MakeSurfaces ==
    /\ pc = "make_objfiles"
    /\ IF \E f \in FaceIds : PolygonRaises(f)
       THEN Leave("crashed", Crash(VerticesOverlapping))
       ELSE /\ \E r \in {FaceLoop(<<>>, <<>>, 0)} :
                  /\ all_vertices' = r.av
                  /\ face_vertices' = r.fv
            /\ surfaces' = [f \in FaceIds |-> Area2(f)]
            /\ n' = 0
            /\ pc' = IF method = "all" THEN "texture_all" ELSE "distances"
            /\ UNCHANGED <<building, method, imagesize, limit, pcd, gridsize,
                           nkmap, distance_matrix, nearest_face, masks,
                           zranges, painted, gridsizes, texture_images, files,
                           saves, objfile, mtlfile, response>>
            /\ UNCHANGED fixed

-----------------------------------------------------------------------------
(* Surface.create_texture_image *)

\* variant: a point on the border of the bounds is left out
InBoundsOpen(f, p) ==
    LET b == boundary(f)
        q == get_projected_points(f)[p]
    IN  q[1] > b[1] /\ q[1] < b[3] /\ q[2] > b[2] /\ q[2] < b[4]

\* line 747: X, Y inside the bounds of the face, borders included
InBounds(f, p) ==
    LET b == boundary(f)
        q == get_projected_points(f)[p]
    IN  q[1] >= b[1] /\ q[1] <= b[3] /\ q[2] >= b[2] /\ q[2] <= b[4]

\* line 747: mask & bounds, as the set of selected point indices
FilteredPoints(f, mask) == {p \in mask : InBounds(f, p)}

\* variant: the placeholder is taken to exist and is never saved
MustSavePlaceholderNever(fs) == FALSE

\* line 754: the placeholder is saved when it does not exist yet
MustSavePlaceholder(fs) == NoTexture \notin fs

\* lines 727-728
EffectiveImageSize == IF imagesize = None THEN DEFAULT_IMAGESIZE ELSE imagesize

\* variant: the size of a pixel follows from the face alone
RasterGridSizeOfFace(f) ==
    LET b == boundary(f)
    IN  SetMax({((b[3] - b[1]) * 100000) \div (EffectiveImageSize - 1),
                ((b[4] - b[2]) * 100000) \div (EffectiveImageSize - 1)})

\* lines 735-738: the size of a pixel, in micrometres
RasterGridSize(f) ==
    LET b == boundary(f)
    IN  SetMax({((b[3] - b[1]) * 100000) \div (EffectiveImageSize - 1),
                ((b[4] - b[2]) * 100000) \div (EffectiveImageSize - 1),
                gridsize})

\* the whole call for face f in a job that runs alone
CreateTextureImage(f, mask) ==
    LET sel == FilteredPoints(f, mask)
    IN  /\ masks' = masks @@ (f :> mask)
        /\ painted' = painted @@ (f :> sel)
        /\ gridsizes' = gridsizes @@ (f :> RasterGridSize(f))
        /\ IF sel = {}
           THEN /\ files' = IF MustSavePlaceholder(files)
                            THEN files \cup {NoTexture} ELSE files
                /\ saves' = IF MustSavePlaceholder(files)
                            THEN saves + 1 ELSE saves
                /\ texture_images' = texture_images @@ (f :> NoTexture)
           ELSE /\ files' = files \cup {FaceTexture(f)}
                /\ saves' = saves
                /\ texture_images' = texture_images @@ (f :> FaceTexture(f))

-----------------------------------------------------------------------------
(* make_objfiles, lines 181-191: method all *)

TextureAll ==
    /\ pc = "texture_all"
    /\ n < nfaces
    /\ CreateTextureImage(n, PointIds)
    /\ n' = n + 1
    /\ UNCHANGED <<building, method, imagesize, limit, pcd, gridsize, pc,
                   all_vertices, face_vertices, nkmap, distance_matrix,
                   nearest_face, zranges, objfile, mtlfile, surfaces,
                   response>>
    /\ UNCHANGED fixed

-----------------------------------------------------------------------------
(* make_objfiles, lines 196-233: distances and nearest faces *)

\* variant: the test for an empty cloud is missing
NoPointsNever(distances) == FALSE

\* line 201
NoPoints(distances) == DOMAIN distances = {}

\* variant: only the first face gets the penalty
LodPenaltyFirstOnly(f) == lod = 1 /\ f = 0

\* variant: the last face is missed by one
LodPenaltyOffByOne(f) == lod = 1 /\ (f = 0 \/ f = nfaces)

\* line 206: the rows that get the 999.9 penalty
LodPenalty(f) == lod = 1 /\ (f = 0 \/ f = nfaces - 1)

\* variant: the sum is computed but not assigned
PenaltyDropped(f, distances) == distances

\* lines 206-208
Penalized(f, distances) ==
    IF LodPenalty(f)
    THEN [p \in DOMAIN distances |-> distances[p] + Sentinel]
    ELSE distances

\* variant: only faces without any point inside their bounds are excluded
TooFarOnlySentinel(distances) == SetMin(Range(distances)) >= Sentinel

\* line 213
TooFar(distances) == SetMin(Range(distances)) > ProximityLimit

\* variant: the row of a face is counted with the faces, not with the rows
NextRowIsFace == n

\* lines 197 and 219-220: k, the number of rows of list_of_distances
NextRow == Cardinality(DOMAIN distance_matrix)

\* one iteration of the loop of lines 199-222
DistanceLoop ==
    /\ pc = "distances"
    /\ n < nfaces
    /\ LET raw == get_distance_matrix(n)
           k == NextRow
       IN  IF NoPoints(raw)
           THEN /\ nkmap' = nkmap @@ (n :> None)
                /\ UNCHANGED <<distance_matrix, pc>>
           ELSE IF DOMAIN raw = {}
           THEN \* distances.min() of an empty array raises ValueError
                /\ pc' = "aborted"
                /\ UNCHANGED <<distance_matrix, nkmap>>
           ELSE LET distances == Penalized(n, raw)
                IN  IF TooFar(distances)
                    THEN /\ nkmap' = nkmap @@ (n :> None)
                         /\ UNCHANGED <<distance_matrix, pc>>
                    ELSE /\ distance_matrix' =
                                distance_matrix @@ (k :> distances)
                         /\ nkmap' = nkmap @@ (n :> k)
                         /\ UNCHANGED pc
    /\ n' = n + 1
    /\ UNCHANGED <<building, method, imagesize, limit, pcd, gridsize,
                   all_vertices, face_vertices, nearest_face, masks, zranges,
                   painted, texture_images, files, saves, objfile, mtlfile,
                   surfaces, gridsizes, response>>
    /\ UNCHANGED fixed

\* np.argmin over rows i .. k-1 of column p, best being the row found so far
RECURSIVE ArgMinScan(_, _, _, _)
ArgMinScan(matrix, p, i, best) ==
    IF i = Cardinality(DOMAIN matrix) THEN best
    ELSE ArgMinScan(matrix, p, i + 1,
                    IF matrix[i][p] < matrix[best][p] THEN i ELSE best)

\* variant: among tied rows the last one wins
RECURSIVE ArgMinScanLast(_, _, _, _)
ArgMinScanLast(matrix, p, i, best) ==
    IF i = Cardinality(DOMAIN matrix) THEN best
    ELSE ArgMinScanLast(matrix, p, i + 1,
                        IF matrix[i][p] <= matrix[best][p] THEN i ELSE best)

ArgMinLast(matrix, p) == ArgMinScanLast(matrix, p, 1, 0)

\* np.argmin(distance_matrix, axis=0)[p]
ArgMin(matrix, p) == ArgMinScan(matrix, p, 1, 0)

\* lines 224-233
NearestFaces ==
    /\ pc = "distances"
    /\ n = nfaces
    /\ nearest_face' =
          IF Cardinality(DOMAIN distance_matrix) = 0
          THEN [isarray |-> FALSE, val |-> <<>>]
          ELSE [isarray |-> TRUE,
                val |-> [p \in PointIds |-> ArgMin(distance_matrix, p)]]
    /\ pc' = IF method = "nearest" THEN "texture_nearest" ELSE "texture_smart"
    /\ n' = 0
    /\ UNCHANGED <<building, method, imagesize, limit, pcd, gridsize,
                   all_vertices, face_vertices, nkmap, distance_matrix, masks,
                   zranges, painted, texture_images, files, saves, objfile,
                   mtlfile, surfaces, gridsizes, response>>
    /\ UNCHANGED fixed

\* (nearest_face == k)[p]; nearest_face is the scalar False when the matrix
\* is empty, and in Python False == 0 while False != None
NearestIs(p, k) ==
    IF nearest_face.isarray THEN nearest_face.val[p] = k ELSE k = 0

-----------------------------------------------------------------------------
(* make_objfiles, lines 235-249: method nearest *)

\* variant: the test against 999.0 is missing
NearestMaskNoCut(f) ==
    LET k == nkmap[f]
    IN  IF k = None THEN {} ELSE {p \in PointIds : NearestIs(p, k)}

\* lines 242-246
NearestMask(f) ==
    LET k == nkmap[f]
    IN  IF k = None THEN {}
        ELSE {p \in PointIds :
                 NearestIs(p, k) /\ distance_matrix[k][p] < NearestCut}

TextureNearest ==
    /\ pc = "texture_nearest"
    /\ n < nfaces
    /\ CreateTextureImage(n, NearestMask(n))
    /\ n' = n + 1
    /\ UNCHANGED <<building, method, imagesize, limit, pcd, gridsize, pc,
                   all_vertices, face_vertices, nkmap, distance_matrix,
                   nearest_face, zranges, objfile, mtlfile, surfaces,
                   response>>
    /\ UNCHANGED fixed

-----------------------------------------------------------------------------
(* make_objfiles, lines 251-275: method smart *)

\* variant: filtered_pcd also restricted to the bounds of the face
SmartFilteredInBounds(f) ==
    {p \in PointIds : NearestIs(p, nkmap[f]) /\ InBounds(f, p)}

\* lines 260-263: the points of filtered_pcd
SmartFiltered(f) == {p \in PointIds : NearestIs(p, nkmap[f])}

\* lines 268-270, zs being the depths of filtered_pcd
ZRange(zs) ==
    LET lo == IF SetMin(zs) > ZMinLow THEN SetMin(zs) ELSE ZMinLow
        hi == SetMax(zs)
    IN  <<IF lo < ZMinHigh THEN lo ELSE ZMinHigh,
          IF hi > ZMaxLow THEN hi ELSE ZMaxLow>>

\* variant: an empty filtered_pcd falls back to the narrowest window
SmartRangeDefault(f) ==
    LET filtered == SmartFiltered(f)
    IN  IF filtered = {} THEN <<ZMinHigh, ZMaxLow>>
        ELSE ZRange({get_projected_points(f)[p][3] : p \in filtered})

\* lines 264-272: z_range, or <<>> when filtered_pcd is empty
SmartRange(f) ==
    LET filtered == SmartFiltered(f)
    IN  IF filtered = {} THEN <<>>
        ELSE ZRange({get_projected_points(f)[p][3] : p \in filtered})

\* variant: the final mask keeps the restriction to the nearest points
SmartMaskNearestOnly(f) ==
    LET r == SmartRange(f)
    IN  IF r = <<>> THEN {}
        ELSE {p \in SmartFiltered(f) :
                 /\ get_projected_points(f)[p][3] >= r[1]
                 /\ get_projected_points(f)[p][3] <= r[2]}

\* lines 264-272: the final mask
SmartMask(f) ==
    LET r == SmartRange(f)
    IN  IF r = <<>> THEN {}
        ELSE {p \in PointIds :
                 /\ get_projected_points(f)[p][3] >= r[1]
                 /\ get_projected_points(f)[p][3] <= r[2]}

TextureSmart ==
    /\ pc = "texture_smart"
    /\ n < nfaces
    /\ zranges' = zranges @@ (n :> SmartRange(n))
    /\ CreateTextureImage(n, SmartMask(n))
    /\ n' = n + 1
    /\ UNCHANGED <<building, method, imagesize, limit, pcd, gridsize, pc,
                   all_vertices, face_vertices, nkmap, distance_matrix,
                   nearest_face, objfile, mtlfile, surfaces, response>>
    /\ UNCHANGED fixed

-----------------------------------------------------------------------------
(* make_objfiles, lines 279-351: the OBJ and MTL files *)

\* round(num / den, 3) in thousandths, for num >= 0 and den > 0
Round3(num, den) == (2000 * num + den) \div (2 * den)

\* lines 301-308: the texture coordinates of the vertices of face f
TextureCoords(f) ==
    LET b == boundary(f)
        width == b[3] - b[1]
        height == b[4] - b[2]
    IN  [i \in 1 .. Len(building[f]) |->
            <<Round3(projected_vertices(f)[i][1] - b[1], width),
              Round3(height - (projected_vertices(f)[i][2] - b[2]), height)>>]

\* variant: every face deduplicates in a list of its own, and the lists are
\* written one after the other
RECURSIVE VtLoopPerFace(_, _, _)
VtLoopPerFace(vt_list, vt_index, f) ==
    IF f = nfaces THEN [vt_list |-> vt_list, vt_index |-> vt_index]
    ELSE LET r == RingLoop(<<>>, <<>>, TextureCoords(f), 1)
             shifted == [i \in 1 .. Len(r.vertices) |->
                            r.vertices[i] + Len(vt_list)]
         IN  VtLoopPerFace(vt_list \o r.av, vt_index @@ (f :> shifted), f + 1)

\* lines 293-317: vt_list is created once, before the loop over the faces
RECURSIVE VtLoop(_, _, _)
VtLoop(vt_list, vt_index, f) ==
    IF f = nfaces THEN [vt_list |-> vt_list, vt_index |-> vt_index]
    ELSE LET r == RingLoop(vt_list, <<>>, TextureCoords(f), 1)
         IN  VtLoop(r.av, vt_index @@ (f :> r.vertices), f + 1)

\* variant: the indices are written as they are counted, from 0
FaceRecordFromZero(f, vt_index) ==
    [usemtl |-> texture_images[f],
     f |-> [i \in 1 .. Len(face_vertices[f]) |->
               <<face_vertices[f][i], vt_index[f][i], f>>]]

\* lines 324-333: usemtl and the v/vt/vn triples of face f
FaceRecord(f, vt_index) ==
    [usemtl |-> texture_images[f],
     f |-> [i \in 1 .. Len(face_vertices[f]) |->
               <<face_vertices[f][i] + 1, vt_index[f][i] + 1, f + 1>>]]

WriteObj ==
    /\ pc \in {"texture_all", "texture_nearest", "texture_smart"}
    /\ n = nfaces
    /\ \E vt \in {VtLoop(<<>>, <<>>, 0)} :
          objfile' = [v |-> all_vertices,
                      vn |-> [f \in FaceIds |-> projection_matrix(f)[3]],
                      vt |-> vt.vt_list,
                      faces |-> [f \in FaceIds |-> FaceRecord(f, vt.vt_index)]]
    /\ files' = files \cup {ObjFile}
    /\ pc' = "write_mtl"
    /\ UNCHANGED <<building, method, imagesize, limit, pcd, gridsize, n,
                   all_vertices, face_vertices, nkmap, distance_matrix,
                   nearest_face, masks, zranges, painted, texture_images,
                   saves, mtlfile, surfaces, gridsizes, response>>
    /\ UNCHANGED fixed

WriteMtl ==
    /\ pc = "write_mtl"
    /\ mtlfile' = [f \in FaceIds |-> [newmtl |-> texture_images[f],
                                       map_Kd |-> texture_images[f]]]
    /\ files' = files \cup {MtlFile}
    /\ pc' = "done"
    /\ UNCHANGED <<building, method, imagesize, limit, pcd, gridsize, n,
                   all_vertices, face_vertices, nkmap, distance_matrix,
                   nearest_face, masks, zranges, painted, texture_images,
                   saves, objfile, surfaces, gridsizes, response>>
    /\ UNCHANGED fixed

-----------------------------------------------------------------------------
(* The text of the two files, one record per printed line.  A coordinate    *)
(* printed with {:.4f} is the number of ten-thousandths of a metre, a unit  *)
(* vector printed with {:.4f} the number of ten-thousandths, a texture      *)
(* coordinate printed with {:.3f} the number of thousandths.                *)

\* "{:.4f}".format(x) for a length x held in tenths of a metre
Fmt4(x) == x * 1000

\* "{:.4f}".format(x) for a component x of a unit vector of the catalogue
FmtUnit4(x) == x * 10000

\* lines 283-333
ObjLines ==
    LET nv == Len(objfile.v)
        nt == Len(objfile.vt)
    IN  << [tag |-> "mtllib", val |-> MtlFile.name],
           [tag |-> "o", val |-> "bldid"] >>
        \o [i \in 1 .. nv |->
               [tag |-> "v",
                val |-> <<Fmt4(objfile.v[i][1]), Fmt4(objfile.v[i][2]),
                          Fmt4(objfile.v[i][3])>>]]
        \o [i \in 1 .. nfaces |->
               [tag |-> "vn",
                val |-> <<FmtUnit4(objfile.vn[i - 1][1]),
                          FmtUnit4(objfile.vn[i - 1][2]),
                          FmtUnit4(objfile.vn[i - 1][3])>>]]
        \o [i \in 1 .. nt |-> [tag |-> "vt", val |-> objfile.vt[i]]]
        \o [i \in 1 .. 2 * nfaces |->
               LET f == (i - 1) \div 2
               IN  IF i % 2 = 1
                   THEN [tag |-> "usemtl", val |-> objfile.faces[f].usemtl]
                   ELSE [tag |-> "f", val |-> objfile.faces[f].f]]

\* lines 342-348
MtlLines ==
    [i \in 1 .. 3 * nfaces |->
        LET f == (i - 1) \div 3
        IN  IF i % 3 = 1
            THEN [tag |-> "newmtl", val |-> mtlfile[f].newmtl]
            ELSE IF i % 3 = 2
            THEN [tag |-> "Kd", val |-> "1 1 1 Ns 0 d 1 illum 1 Ka 0 0 0 Ks 1 1 1"]
            ELSE [tag |-> "map_Kd", val |-> mtlfile[f].map_Kd]]

-----------------------------------------------------------------------------------------------------------------------------------------------------
(* get_obj3d, lines 446-485: the memory limit around make_objfiles and the  *)
(* archive                                                                  *)

\* variant: the handler is one for RuntimeError
CaughtRuntimeError(e) == e.class = "RuntimeError"

\* line 454: except MemoryError
Caught(e) == e.class = "MemoryError"

\* make_objfiles is running
Constructing ==
    pc \in {"make_objfiles", "texture_all", "distances", "texture_nearest",
            "texture_smart", "write_mtl"}

\* an allocation of make_objfiles exceeds the limit set at line 449
RaiseMemoryError ==
    /\ Constructing
    /\ \E e \in MemoryErrors :
          IF Caught(e) THEN Leave("error", ErrorResponse(e))
          ELSE Leave("crashed", Crash(e))

\* lines 459-485: the files are zipped and sent, and the directory is removed
SendArchive ==
    /\ pc = "done"
    /\ Leave("sent", [status |-> 200, body |-> "obj3d.zip", archive |-> TRUE])

-----------------------------------------------------------------------------
(* One request of get_obj3d *)

Next ==
    \/ ParseLimit
    \/ GetBuilding
    \/ GetBuildingAgain
    \/ GetPointcloud
    \/ GetPointcloudAgain
    \/ MakeSurfaces
    \/ TextureAll
    \/ DistanceLoop
    \/ NearestFaces
    \/ TextureNearest
    \/ TextureSmart
    \/ WriteObj
    \/ WriteMtl
    \/ RaiseMemoryError
    \/ SendArchive

Spec == Init /\ [][Next]_vars

TypeOK ==
    /\ pc \in {"start", "get_building", "get_pointcloud", "looping",
               "make_objfiles", "texture_all", "distances",
               "texture_nearest", "texture_smart", "write_mtl", "done",
               "aborted", "error", "crashed", "sent"}
    /\ n \in 0 .. nfaces
    /\ saves \in 0 .. 1

-----
(* Concurrent jobs that write to the same Build3d.dirname.  Each job runs   *)
(* create_texture_image for faces whose mask is empty, lines 748-757, one   *)
(* statement at a time: os.path.exists, image.save, return.                 *)

JobIds == 1 .. MaxJobs

\* a Build3d whose get_pointcloud has found no point
Loaded ==
    /\ db = Box(20, 20, 20)
    /\ building = db
    /\ lod = 1
    /\ method = "smart"
    /\ imagesize = RequestImageSize
    /\ lasdata = <<>>
    /\ limit = << >>
    /\ pcd = [loaded |-> TRUE, points |-> <<>>]
    /\ gridsize = GRIDSIZE
    /\ pc = "texture_smart"
    /\ NoLocals
    /\ response = NoResponse

InitJobs ==
    /\ Loaded
    /\ rlimit = [soft |-> 2 * MAX_MEMORY, hard |-> 2 * MAX_MEMORY]
    /\ requests = <<>>
    /\ OthersIdle
    /\ files \in {{}, {NoTexture}}
    /\ saves = 0
    /\ jobs \in [JobIds -> [at : {"exists"}, faces : 1 .. MaxGrayFaces,
                            absent : {FALSE}, returned : {{}}]]

\* line 754: if not os.path.exists(self.pngfilename)
JobExists(j) ==
    /\ jobs[j].at = "exists"
    /\ jobs' = [jobs EXCEPT ![j].absent = MustSavePlaceholder(files),
                            ![j].at = IF MustSavePlaceholder(files)
                                      THEN "save" ELSE "return"]
    /\ UNCHANGED <<files, saves>>
    /\ UNCHANGED jobvars
    /\ UNCHANGED <<rlimit, requests>>
    /\ UNCHANGED others

\* line 755: image.save(self.pngfilename)
JobSave(j) ==
    /\ jobs[j].at = "save"
    /\ files' = files \cup {NoTexture}
    /\ saves' = saves + 1
    /\ jobs' = [jobs EXCEPT ![j].at = "return"]
    /\ UNCHANGED jobvars
    /\ UNCHANGED <<rlimit, requests>>
    /\ UNCHANGED others

\* line 757: return os.path.basename(self.pngfilename), then the next face
JobReturn(j) ==
    /\ jobs[j].at = "return"
    /\ jobs' = [jobs EXCEPT
                  ![j].returned = @ \cup {NoTexture.name},
                  ![j].faces = @ - 1,
                  ![j].at = IF jobs[j].faces > 1 THEN "exists" ELSE "done"]
    /\ UNCHANGED <<files, saves>>
    /\ UNCHANGED jobvars
    /\ UNCHANGED <<rlimit, requests>>
    /\ UNCHANGED others

NextJobs == \E j \in JobIds : JobExists(j) \/ JobSave(j) \/ JobReturn(j)

SpecJobs == InitJobs /\ [][NextJobs]_vars

-----------------------------------------------------------------------------
(* Concurrent requests in limit_resource, api.py lines 32-58, as called at  *)
(* line 449, one statement at a time: getrlimit, setrlimit, the body of the *)
(* with statement, the setrlimit of the finally clause.  The limit of the   *)
(* process before the first request stands for any value other than         *)
(* MAX_MEMORY; amounts are in MiB.                                          *)

SoftLimitAtStart == 2 * MAX_MEMORY

InitLimits ==
    /\ Loaded
    /\ files = {}
    /\ saves = 0
    /\ jobs = <<>>
    /\ rlimit = [soft |-> SoftLimitAtStart, hard |-> 2 * MAX_MEMORY]
    /\ requests = [j \in JobIds |->
                      [at |-> "getrlimit", soft_limit |-> None,
                       hard_limit |-> None, outcome |-> "none"]]
    /\ OthersIdle

\* line 50: soft_limit, hard_limit = resource.getrlimit(type)
Getrlimit(j) ==
    /\ requests[j].at = "getrlimit"
    /\ requests' = [requests EXCEPT ![j].soft_limit = rlimit.soft,
                                    ![j].hard_limit = rlimit.hard,
                                    ![j].at = "setrlimit"]
    /\ UNCHANGED <<rlimit, files, saves, jobs>>
    /\ UNCHANGED others
    /\ UNCHANGED jobvars

\* line 51: resource.setrlimit(type, (limit, hard_limit))
Setrlimit(j) ==
    /\ requests[j].at = "setrlimit"
    /\ rlimit' = [soft |-> MAX_MEMORY, hard |-> requests[j].hard_limit]
    /\ requests' = [requests EXCEPT ![j].at = "yield"]
    /\ UNCHANGED <<files, saves, jobs>>
    /\ UNCHANGED others
    /\ UNCHANGED jobvars

\* lines 54-55 and 450-457: make_objfiles returns, or it raises MemoryError
\* and the handler returns
Yield(j) ==
    /\ requests[j].at = "yield"
    /\ \E outcome \in {"returned", "MemoryError"} :
          requests' = [requests EXCEPT ![j].outcome = outcome,
                                       ![j].at = "finally"]
    /\ UNCHANGED <<rlimit, files, saves, jobs>>
    /\ UNCHANGED others
    /\ UNCHANGED jobvars

\* line 57: resource.setrlimit(type, (soft_limit, hard_limit))
Restore(j) ==
    /\ requests[j].at = "finally"
    /\ rlimit' = [soft |-> requests[j].soft_limit,
                  hard |-> requests[j].hard_limit]
    /\ requests' = [requests EXCEPT ![j].at = "left"]
    /\ UNCHANGED <<files, saves, jobs>>
    /\ UNCHANGED others
    /\ UNCHANGED jobvars

NextLimits ==
    \E j \in JobIds : Getrlimit(j) \/ Setrlimit(j) \/ Yield(j) \/ Restore(j)

SpecLimits == InitLimits /\ [][NextLimits]_vars

-----------------------------------------------------------------------------
(* Requests for buildings with a wall whose ring is not a simple polygon.   *)
(* The first, second and last vertex of each ring are not collinear, so     *)
(* that the vectors of calc_basic_metrics are defined.                      *)

\* the cube with the last two vertices of the wall y = 0 exchanged: two edges
\* of the ring cross
Bowtie(W, D, H) ==
    [Box(W, D, H) EXCEPT
        ![1] = <<<<0, 0, 0>>, <<W, 0, 0>>, <<0, 0, H>>, <<W, 0, H>>>>]

\* the cube with a wall y = 0 that runs along two edges and back: it
\* encloses no area
Spike(W, D, H) ==
    [Box(W, D, H) EXCEPT
        ![1] = <<<<0, 0, 0>>, <<W, 0, 0>>, <<0, 0, 0>>, <<0, 0, H>>>>]

SurfaceBuildings == {Bowtie(20, 20, 20), Spike(20, 20, 20), Box(20, 20, 20)}

InitSurface ==
    /\ InitJob
    /\ Len(lasdata) <= 1
    /\ db \in SurfaceBuildings
    /\ files = {}
    /\ saves = 0
    /\ jobs = <<>>
    /\ rlimit = [soft |-> 2 * MAX_MEMORY, hard |-> 2 * MAX_MEMORY]
    /\ requests = <<>>
    /\ OthersIdle

SpecSurface == InitSurface /\ [][Next]_vars

-----------------------------------------------------------------------------
(* Vocabulary of the properties *)

\* the nearest faces have been assigned (line 233 has run)
Assigned ==
    /\ method # "all"
    /\ pc \in {"texture_nearest", "texture_smart", "write_mtl", "done"}

\* face f has a row in the distance matrix
Surviving(f) == f \in DOMAIN nkmap /\ nkmap[f] # None

\* face f is the nearest face of point p
IsNearestFace(p, f) ==
    /\ nearest_face.isarray
    /\ Surviving(f)
    /\ nearest_face.val[p] = nkmap[f]

\* signed distance of point p from the plane of face f
Depth(f, p) == get_projected_points(f)[p][3]

\* the distance value of the data model: |depth|, plus the sentinel when
\* the projection of p falls outside the bounding box of f
DistanceValue(f, p) ==
    Abs(Depth(f, p)) + (IF InBounds(f, p) THEN 0 ELSE Sentinel)

\* clamp(lowest, -10.0, -1.0) and max(1.0, highest) over the depths zs
ClampedWindow(zs) ==
    LET lowest == SetMin(zs)
        highest == SetMax(zs)
    IN  <<IF lowest < ZMinLow THEN ZMinLow
          ELSE IF lowest > ZMinHigh THEN ZMinHigh ELSE lowest,
          IF highest < ZMaxLow THEN ZMaxLow ELSE highest>>

InWindow(f, p) ==
    /\ zranges[f] # <<>>
    /\ Depth(f, p) >= zranges[f][1]
    /\ Depth(f, p) <= zranges[f][2]

\* make_objfiles has returned with both files written, one face record and
\* one material record per face
FilesEmitted ==
    /\ {ObjFile, MtlFile} \subseteq files
    /\ DOMAIN objfile.faces = FaceIds
    /\ DOMAIN mtlfile = FaceIds
    /\ \A f \in FaceIds : /\ objfile.faces[f].usemtl = texture_images[f]
                          /\ mtlfile[f].newmtl = texture_images[f]
                          /\ texture_images[f] \in files

-----------------------------------------------------------------------------
(* C1 (as stated): under smart the final mask of a face holds exactly the  *)
(* points whose nearest face it is and whose depth is in its window, and   *)
(* no point with another nearest face is in the mask or in the raster.     *)
C1_SmartMaskOnlyNearest ==
    method = "smart" =>
        \A f \in DOMAIN masks :
            /\ masks[f] = {p \in PointIds :
                              IsNearestFace(p, f) /\ InWindow(f, p)}
            /\ \A p \in painted[f] : IsNearestFace(p, f)

(* C1 (amended): under smart the final mask of a face that is the nearest  *)
(* face of some point holds exactly the points whose depth lies in the     *)
(* face's window, whatever their nearest face, and the raster is coloured  *)
(* by those of them that project inside the bounding box; a face that is   *)
(* nobody's nearest face has an empty mask.                                *)
C1_SmartMaskIsDepthWindow ==
    method = "smart" =>
        \A f \in DOMAIN masks :
            /\ masks[f] = {p \in PointIds : InWindow(f, p)}
            /\ zranges[f] # <<>> <=> \E p \in PointIds : IsNearestFace(p, f)
            /\ painted[f] = {p \in masks[f] : InBounds(f, p)}

\* a point whose nearest face is another face colours the raster of f
C1_Witness ==
    /\ method = "smart"
    /\ \E f \in DOMAIN painted : \E p \in painted[f] :
          \E g \in FaceIds : g # f /\ IsNearestFace(p, g)

-----------------------------------------------------------------------------
-----------------------------------------------------------------------------
(* C3: the nearest face of a point is the row with the minimum of the      *)
(* point's column, and among tied rows the lowest one, which is the row of *)
(* the surviving face with the smallest face number.                       *)
C3_ArgMinLowestRow ==
    (Assigned /\ nearest_face.isarray) =>
        \A p \in PointIds :
            LET k == nearest_face.val[p]
            IN  /\ k \in DOMAIN distance_matrix
                /\ \A j \in DOMAIN distance_matrix :
                      /\ distance_matrix[k][p] <= distance_matrix[j][p]
                      /\ j < k => distance_matrix[k][p] < distance_matrix[j][p]
                /\ \A f, g \in FaceIds :
                      (IsNearestFace(p, f) /\ Surviving(g) /\ g # f
                         /\ distance_matrix[nkmap[g]][p] = distance_matrix[k][p])
                      => f < g

\* two surviving faces tie for the minimum of a column
C3_Witness ==
    /\ Assigned
    /\ nearest_face.isarray
    /\ \E p \in PointIds : \E j \in DOMAIN distance_matrix :
          /\ j # nearest_face.val[p]
          /\ distance_matrix[j][p] = distance_matrix[nearest_face.val[p]][p]

-----------------------------------------------------------------------------
\* the face whose distances are row k of the matrix
FaceOfRow(k) == CHOOSE f \in DOMAIN nkmap : nkmap[f] = k

\* the distance vector of face f with the 999.9 penalty added
WithPenalty(f) == [p \in PointIds |-> DistanceValue(f, p) + Sentinel]

Unpenalized(f) == [p \in PointIds |-> DistanceValue(f, p)]

(* C4 (as stated): when lod is 1 the rows of the first and of the last     *)
(* surviving face carry the 999.9 penalty when the arg-min is computed.    *)
C4_PenaltyOnSurvivingRows ==
    (Assigned /\ lod = 1 /\ nearest_face.isarray) =>
        LET last == Cardinality(DOMAIN distance_matrix) - 1
        IN  /\ distance_matrix[0] = WithPenalty(FaceOfRow(0))
            /\ distance_matrix[last] = WithPenalty(FaceOfRow(last))

(* C4 (amended): when lod is 1 the 999.9 penalty is added to the distances *)
(* of the first and of the last face of the building (face numbers 0 and   *)
(* nfaces - 1) before the 10-unit exclusion test, so these two faces never *)
(* get a row of the distance matrix, and the rows of the surviving faces   *)
(* carry no penalty when the arg-min is computed.                          *)
C4_PenaltyExcludesFirstAndLastFace ==
    lod = 1 =>
        /\ \A f \in DOMAIN nkmap :
              (f = 0 \/ f = nfaces - 1) => nkmap[f] = None
        /\ \A f \in DOMAIN nkmap :
              Surviving(f) => distance_matrix[nkmap[f]] = Unpenalized(f)

\* the first face has a point within 10 units inside its bounding box, so
\* only the penalty keeps it out of the matrix, and another face survives
C4_Witness ==
    /\ Assigned
    /\ lod = 1
    /\ nearest_face.isarray
    /\ \E p \in PointIds : DistanceValue(0, p) <= ProximityLimit
    /\ nkmap[0] = None

-----------------------------------------------------------------------------
(* C5: for lod 1 neither the first nor the last face of the building is    *)
(* the nearest face of any point, unless every other face is excluded from *)
(* the distance matrix.                                                    *)
C5_CapsNeverNearest ==
    (Assigned /\ lod = 1
       /\ \E g \in FaceIds : g # 0 /\ g # nfaces - 1 /\ Surviving(g)) =>
        \A p \in PointIds :
            ~IsNearestFace(p, 0) /\ ~IsNearestFace(p, nfaces - 1)

\* a point is closer to the first face than to every surviving face
C5_Witness ==
    /\ Assigned
    /\ lod = 1
    /\ \E g \in FaceIds : g # 0 /\ g # nfaces - 1 /\ Surviving(g)
    /\ \E p \in PointIds : \A g \in FaceIds :
          Surviving(g) => DistanceValue(0, p) < DistanceValue(g, p)

-----------------------------------------------------------------------------
\* no point has a distance value of at most 10.0 for face f
NoPointWithinLimit(f) ==
    \A p \in PointIds : DistanceValue(f, p) > ProximityLimit

(* C6 (as stated): under every mapping method a face without a point       *)
(* within the 10-unit threshold gets the gray placeholder, and the job     *)
(* still writes the mesh and material files.                               *)
C6_FarFaceIsGray ==
    /\ \A f \in DOMAIN texture_images :
          NoPointWithinLimit(f) => texture_images[f] = NoTexture
    /\ pc # "aborted"
    /\ pc = "done" => FilesEmitted

(* C6 (amended): under the mapping methods nearest and smart a face        *)
(* without a point within the 10-unit threshold gets the gray placeholder, *)
(* and the job still writes the mesh and material files; under all, the    *)
(* face is textured by the points inside its bounding box at any distance. *)
C6_FarFaceIsGrayUnlessAll ==
    /\ method # "all" =>
          \A f \in DOMAIN texture_images :
              NoPointWithinLimit(f) => texture_images[f] = NoTexture
    /\ method = "all" =>
          \A f \in DOMAIN texture_images :
              texture_images[f] = NoTexture <=>
                  ~ \E p \in PointIds : InBounds(f, p)
    /\ pc # "aborted"
    /\ pc = "done" => FilesEmitted

\* a finished nearest or smart job with a face whose only points inside the
\* bounding box are farther than 10 units away
C6_Witness ==
    /\ method # "all"
    /\ pc = "done"
    /\ \E f \in FaceIds :
          /\ NoPointWithinLimit(f)
          /\ \E p \in PointIds : InBounds(f, p)
          /\ texture_images[f] = NoTexture

-----------------------------------------------------------------------------
\* the points that have f as nearest face
NearestPoints(f) == {p \in PointIds : IsNearestFace(p, f)}

\* those of them that project inside the bounding box of f
BoundedNearestPoints(f) == {p \in NearestPoints(f) : InBounds(f, p)}

(* C7 (as stated): under smart the window of a face is the clamped range   *)
(* of the depths of the points that have the face as nearest face and      *)
(* project inside its bounding box.                                        *)
C7_WindowFromBoundedPoints ==
    method = "smart" =>
        \A f \in DOMAIN zranges :
            BoundedNearestPoints(f) # {} =>
                zranges[f] =
                    ClampedWindow({Depth(f, p) : p \in BoundedNearestPoints(f)})

(* C7 (amended): under smart the window of a face is                       *)
(* [clamp(min depth, -10.0, -1.0), max(1.0, max depth)] with min and max   *)
(* taken over all the points that have the face as nearest face, those     *)
(* that project outside its bounding box included.                         *)
C7_WindowFromNearestPoints ==
    method = "smart" =>
        \A f \in DOMAIN zranges :
            IF NearestPoints(f) = {} THEN zranges[f] = <<>>
            ELSE zranges[f] =
                    ClampedWindow({Depth(f, p) : p \in NearestPoints(f)})

\* a point outside the bounding box of its nearest face sets the lower end
\* of the window, below what the bounded points give
C7_Witness ==
    /\ method = "smart"
    /\ \E f \in DOMAIN zranges :
          /\ BoundedNearestPoints(f) # {}
          /\ \E p \in NearestPoints(f) :
                /\ ~InBounds(f, p)
                /\ zranges[f][1] = Depth(f, p)
                /\ \A q \in BoundedNearestPoints(f) : Depth(f, q) > Depth(f, p)

-----------------------------------------------------------------------------
(* C8 (as stated): under smart a face with no point that is both nearest   *)
(* to it and inside its bounding box has an empty mask and gets the gray   *)
(* placeholder.                                                            *)
C8_EmptyBoundedSubsetIsGray ==
    method = "smart" =>
        \A f \in DOMAIN masks :
            BoundedNearestPoints(f) = {} =>
                masks[f] = {} /\ texture_images[f] = NoTexture

(* C8 (amended): under smart a face that is the nearest face of no point   *)
(* at all has an empty mask and gets the gray placeholder.                 *)
C8_EmptyNearestSubsetIsGray ==
    method = "smart" =>
        \A f \in DOMAIN masks :
            NearestPoints(f) = {} =>
                masks[f] = {} /\ texture_images[f] = NoTexture

\* a surviving face, with a point inside its bounding box and within one
\* unit of its plane, that is nobody's nearest face
C8_Witness ==
    /\ method = "smart"
    /\ \E f \in DOMAIN masks :
          /\ Surviving(f)
          /\ NearestPoints(f) = {}
          /\ \E p \in PointIds :
                InBounds(f, p) /\ Abs(Depth(f, p)) <= ZMaxLow
          /\ texture_images[f] = NoTexture

-----------------------------------------------------------------------------
(* C9: when the cropped point cloud is empty the job does not abort, every *)
(* face gets the gray placeholder, no point contributes to a texture, and  *)
(* the mesh and material files are emitted with one face record and one    *)
(* material record per face.                                               *)
C9_EmptyCloudAllGray ==
    (pcd.loaded /\ npoints = 0) =>
        /\ pc # "aborted"
        /\ \A f \in DOMAIN texture_images :
              texture_images[f] = NoTexture /\ painted[f] = {}
        /\ pc = "done" =>
              /\ FilesEmitted
              /\ \A f \in FaceIds : objfile.faces[f].usemtl = NoTexture
              /\ \A f \in FaceIds : mtlfile[f].map_Kd = NoTexture

\* a job whose LAS points were all cropped away has finished
C9_Witness ==
    /\ pcd.loaded
    /\ npoints = 0
    /\ lasdata # <<>>
    /\ pc = "done"

-----------------------------------------------------------------------------
(* C10: under every interleaving of jobs that need the placeholder in the  *)
(* same directory, the file is written at most once, an existing           *)
(* placeholder is never rewritten, and every job gets the same name back.  *)
C10_PlaceholderCreatedOnce ==
    [][/\ saves' # saves => NoTexture \notin files
       /\ saves' <= 1
       /\ \A j \in JobIds : jobs'[j].returned \subseteq {NoTexture.name}]_vars

-----------------------------------------------------------------------------
\* the faces have been scanned and their vertices indexed
Indexed == DOMAIN face_vertices = FaceIds /\ nfaces > 0

\* the records of a file that carry the given tag, as a parser reads them
Records(lines, tag) == SelectSeq(lines, LAMBDA l : l.tag = tag)

\* the distinct vertices of the building
DistinctVertices == UNION {Range(building[f]) : f \in FaceIds}

(* C11: the global vertex list holds no two equal entries, the index       *)
(* recorded for a vertex of a face leads to that vertex, and two faces     *)
(* that contain a vertex with the same coordinates record the same index   *)
(* for it, in the list and in the face records of the mesh file.           *)
C11_GlobalVertexDedup ==
    Indexed =>
        /\ \A i, j \in 1 .. Len(all_vertices) :
              i # j => all_vertices[i] # all_vertices[j]
        /\ \A f \in FaceIds : \A i \in 1 .. Len(building[f]) :
              all_vertices[face_vertices[f][i] + 1] = building[f][i]
        /\ \A f, g \in FaceIds :
              \A i \in 1 .. Len(building[f]) : \A j \in 1 .. Len(building[g]) :
                  building[f][i] = building[g][j] =>
                      face_vertices[f][i] = face_vertices[g][j]
        /\ pc = "done" =>
              \A f, g \in FaceIds :
                  \A i \in 1 .. Len(building[f]) :
                      \A j \in 1 .. Len(building[g]) :
                          building[f][i] = building[g][j] =>
                              /\ objfile.faces[f].f[i][1] =
                                     objfile.faces[g].f[j][1]
                              /\ objfile.v[objfile.faces[f].f[i][1]] =
                                     building[f][i]

\* the mesh file is written and two different faces share an edge
C11_Witness ==
    /\ pc = "done"
    /\ \E f, g \in FaceIds :
          /\ f # g
          /\ \E i, j \in 1 .. Len(building[f]) :
                /\ i # j
                /\ building[f][i] \in Range(building[g])
                /\ building[f][j] \in Range(building[g])
          /\ \E i \in 1 .. Len(building[f]) : \E j \in 1 .. Len(building[g]) :
                /\ building[f][i] = building[g][j]
                /\ objfile.faces[f].f[i][1] = objfile.faces[g].f[j][1]

-----------------------------------------------------------------------------
(* C12 (as stated): a texture coordinate entry created for one face is     *)
(* never the texcoord index of a vertex of another face.                   *)
C12_TexcoordsPerFace ==
    pc = "done" =>
        \A f, g \in FaceIds :
            f # g =>
                \A i \in 1 .. Len(building[f]) : \A j \in 1 .. Len(building[g]) :
                    objfile.faces[f].f[i][2] # objfile.faces[g].f[j][2]

(* C12 (amended): texture coordinates are kept in one list for the whole   *)
(* building, deduplicated by value across the faces: no two entries of the *)
(* list are equal, the texcoord index of a vertex leads to its (u, v), and *)
(* two vertices with equal (u, v), of the same face or of different faces, *)
(* get the same texcoord index.                                            *)
C12_TexcoordsGlobal ==
    pc = "done" =>
        \A tc \in {[f \in FaceIds |-> TextureCoords(f)]} :
            /\ \A i, j \in 1 .. Len(objfile.vt) :
                  i # j => objfile.vt[i] # objfile.vt[j]
            /\ \A f \in FaceIds : \A i \in 1 .. Len(building[f]) :
                  objfile.vt[objfile.faces[f].f[i][2]] = tc[f][i]
            /\ \A f, g \in FaceIds :
                  \A i \in 1 .. Len(building[f]) :
                      \A j \in 1 .. Len(building[g]) :
                          tc[f][i] = tc[g][j] =>
                              objfile.faces[f].f[i][2] =
                                  objfile.faces[g].f[j][2]

\* a vertex of a later face reuses the entry a vertex of an earlier face
\* created for the same (u, v)
C12_Witness ==
    /\ pc = "done"
    /\ \E tc \in {[f \in FaceIds |-> TextureCoords(f)]} :
          \E f, g \in FaceIds :
              /\ f < g
              /\ \E i \in 1 .. Len(building[f]) :
                    \E j \in 1 .. Len(building[g]) :
                        /\ tc[f][i] = tc[g][j]
                        /\ objfile.faces[f].f[i][2] = objfile.faces[g].f[j][2]

-----------------------------------------------------------------------------
\* the names of the image files in the output directory
ImageFiles == {x \in files : x # ObjFile /\ x # MtlFile}

(* C13: when make_objfiles has returned, the mesh file read back has one   *)
(* face record per face and one vertex record per distinct vertex of the   *)
(* building, the material file one material record per face, and every     *)
(* name after usemtl or map_Kd is an image file of the output directory.   *)
C13_RoundTrip ==
    pc = "done" =>
        /\ Len(Records(ObjLines, "f")) = nfaces
        /\ Len(Records(ObjLines, "usemtl")) = nfaces
        /\ Len(Records(MtlLines, "newmtl")) = nfaces
        /\ Len(Records(MtlLines, "map_Kd")) = nfaces
        /\ Len(Records(ObjLines, "v")) = Cardinality(DistinctVertices)
        /\ \A i \in 1 .. Len(ObjLines) :
              ObjLines[i].tag = "usemtl" => ObjLines[i].val \in ImageFiles
        /\ \A i \in 1 .. Len(MtlLines) :
              MtlLines[i].tag = "map_Kd" => MtlLines[i].val \in ImageFiles

\* the files name both the placeholder and a texture painted from points
C13_Witness ==
    /\ pc = "done"
    /\ \E i, j \in 1 .. Len(MtlLines) :
          /\ MtlLines[i].tag = "map_Kd" /\ MtlLines[i].val = NoTexture
          /\ MtlLines[j].tag = "map_Kd" /\ MtlLines[j].val # NoTexture
    /\ Len(Records(ObjLines, "v")) < Len(Records(ObjLines, "f")) * 4

-----------------------------------------------------------------------------
(* The raster grid and the voxel grid *)

\* the cloud of the job as cropped, before any downsampling
Cropped == crop_point_cloud(lasdata)

\* the cloud of the job is the outcome of a downsampling with voxel edge g
ProducedWithEdge(g) ==
    \/ pcd.points = Cropped /\ g = GRIDSIZE
    \/ pcd.points # Cropped /\ pcd.points = voxel_down_sample(Cropped, g)

\* width and height of a face with boundary b over imagesize - 1, in
\* micrometres
PixelWidth(b) == ((b[3] - b[1]) * 100000) \div (EffectiveImageSize - 1)

PixelHeight(b) == ((b[4] - b[2]) * 100000) \div (EffectiveImageSize - 1)

\* C14: the grid size of every face handed to create_texture_image is the
\* largest of width / (imagesize - 1), height / (imagesize - 1) and the
\* recorded grid size of the job, and the recorded grid size is the voxel
\* edge that produced the job's cloud (0.01 when it was not downsampled); so
\* no raster is finer than the voxel grid of the cloud.
C14_RasterGridSize ==
    pcd.loaded =>
        /\ ProducedWithEdge(gridsize)
        /\ \A f \in DOMAIN gridsizes :
              \E b \in {boundary(f)} :
                  /\ gridsizes[f] >= PixelWidth(b)
                  /\ gridsizes[f] >= PixelHeight(b)
                  /\ gridsizes[f] >= gridsize
                  /\ gridsizes[f] \in {PixelWidth(b), PixelHeight(b), gridsize}

\* a face is rasterized from a downsampled cloud whose voxel edge is larger
\* than the pixel the face alone would give
C14_Witness ==
    /\ pcd.loaded
    /\ gridsize > GRIDSIZE
    /\ pcd.points # Cropped
    /\ \E f \in DOMAIN gridsizes :
          /\ painted[f] # {}
          /\ gridsizes[f] = gridsize
          /\ gridsize > PixelWidth(boundary(f))
          /\ gridsize > PixelHeight(boundary(f))

-----------------------------------------------------------------------------
(* The downsampling loop *)

RECURSIVE Pow2(_)
Pow2(k) == IF k = 0 THEN 1 ELSE 2 * Pow2(k - 1)

\* 0.01 times the k-th power of the square root of 2, in micrometres
EdgeOfRound(k) ==
    IF k % 2 = 0 THEN GRIDSIZE * Pow2(k \div 2)
    ELSE ((GRIDSIZE * 14142) \div 10000) * Pow2((k - 1) \div 2)

\* equal up to a thousandth
Near(a, b) == Abs(a - b) <= b \div 1000

\* C15: the first get_pointcloud of a job with limit L returns.  When L >= 1
\* the cloud it leaves has at most L points: the cropped cloud itself, with
\* grid size 0.01, when that has at most L points, and otherwise the outcome
\* of the k-th round, whose voxel edge is 0.01 * sqrt(2)^(k-1), k being the
\* first round that leaves at most L points.  When L <= 0 the cropped cloud
\* is left as it is and the grid size stays 0.01.
C15_Downsampling ==
    [][pc = "get_pointcloud" /\ pc' # pc =>
        \E L \in {limit[1]}, c \in {Cropped} :
            /\ pc' = "make_objfiles"
            /\ pcd'.loaded
            /\ IF L >= 1 /\ Len(c) > L
               THEN /\ Len(pcd'.points) <= L
                    /\ \E k \in 1 .. MaxRounds :
                          /\ Near(gridsize', EdgeOfRound(k - 1))
                          /\ pcd'.points = voxel_down_sample(c, gridsize')
                          /\ \A j \in 1 .. (k - 1) :
                                Len(voxel_down_sample(c, EdgeOfRound(j - 1)))
                                    > L
               ELSE /\ pcd'.points = c
                    /\ gridsize' = GRIDSIZE]_vars

\* a cropped cloud of two points has been merged into one point, which took
\* more than two rounds
C15_Witness ==
    /\ pc = "make_objfiles"
    /\ pcd.loaded
    /\ Len(Cropped) = 2
    /\ Len(pcd.points) = 1
    /\ gridsize > 2 * GRIDSIZE
    /\ pcd.points = voxel_down_sample(Cropped, gridsize)

-----------------------------------------------------------------------------
(* The building and the cloud of a job *)

\* C16: once get_building has set the building of a Build3d no step changes
\* it, and once get_pointcloud has set its cloud no step changes the cloud
\* or the recorded grid size: neither a later call of get_building or of
\* get_pointcloud, whatever its limit_points and lasfiles, nor a step of
\* make_objfiles.
C16_LoadedOnce ==
    [][/\ building # NoBuilding => building' = building
       /\ pcd.loaded => pcd' = pcd /\ gridsize' = gridsize]_vars

\* make_objfiles has run to its end, with its calls of get_building and
\* get_pointcloud, on a cloud that the first call downsampled: a second load
\* with the default limit would have left the cropped cloud
C16_Witness ==
    /\ pc = "done"
    /\ building = db
    /\ pcd.loaded
    /\ pcd.points # Cropped
    /\ gridsize # GRIDSIZE
    /\ FilesEmitted

-----------------------------------------------------------------------------
(* A building that is not found *)

\* no texture, mesh or material has been written or prepared
NoOutput ==
    /\ files = {}
    /\ texture_images = <<>>
    /\ objfile = <<>>
    /\ mtlfile = <<>>

\* C17: when the database has no building for the id and the LOD of the
\* request, nothing is ever written: the request gets no further than the
\* lookup, and the step that makes the lookup ends the request with the
\* error of get_building and without an archive.
C17_NotFoundAborts ==
    [][db = NoBuilding =>
          /\ NoOutput
          /\ NoOutput'
          /\ pc' \in {"start", "get_building", "error"}
          /\ (pc = "get_building" /\ pc' # pc) =>
                /\ pc' = "error"
                /\ response' = [status |-> 400,
                                body |-> BuildingNotFound.args,
                                archive |-> FALSE]
                /\ building' = NoBuilding
                /\ ~pcd'.loaded]_vars

\* the lookup has failed and the request is over
C17_Witness ==
    /\ db = NoBuilding
    /\ pc = "error"
    /\ response.body = BuildingNotFound.args
    /\ response.status = 400
    /\ NoOutput

-----------------------------------------------------------------------------
(* The answers of get_obj3d *)

\* the answers to a request that ends before make_objfiles is called: a bad
\* limit parameter, a building that is not found
EarlyFailures == {ErrorResponse(ValueError), ErrorResponse(BuildingNotFound)}

\* the answers to a request whose make_objfiles ran out of memory
Exhausted == {ErrorResponse(e) : e \in MemoryErrors}

-----------------------------------------------------------------------------
(* The memory limit of the process *)

\* every request has left its limit_resource
AllLeft ==
    /\ DOMAIN requests = JobIds
    /\ \A j \in JobIds : requests[j].at = "left"

\* C19: the soft memory limit is the one resource that the requests of a
\* process could share besides the placeholder image, and they do not
\* disturb each other through it: once every request has left
\* limit_resource the soft limit of the process is what it was before the
\* first request entered.
C19_SoftLimitRestored == AllLeft => rlimit.soft = SoftLimitAtStart

-----------------------------------------------------------------------------
(* Degenerate faces *)

Sign(x) == IF x > 0 THEN 1 ELSE IF x < 0 THEN -1 ELSE 0

\* the side of the line through a and b on which c lies
Orientation(a, b, c) ==
    Sign((b[1] - a[1]) * (c[2] - a[2]) - (b[2] - a[2]) * (c[1] - a[1]))

\* the segments a-b and c-d cross in a point inside both
Crossing(a, b, c, d) ==
    /\ Orientation(a, b, c) * Orientation(a, b, d) < 0
    /\ Orientation(c, d, a) * Orientation(c, d, b) < 0

\* two edges of the projected ring of face f cross
SelfIntersecting(f) ==
    \E q \in {projected_vertices(f)} :
        \E i, j \in 1 .. Len(q) :
            /\ i < j
            /\ Crossing(q[i], q[(i % Len(q)) + 1], q[j], q[(j % Len(q)) + 1])

\* the projected ring of face f is self-intersecting or has no area
Degenerate(f) == SelfIntersecting(f) \/ Area2(f) = 0

\* C20: a face whose projected ring is self-intersecting or has no area gets
\* no Surface: its construction ends the request with the error of
\* calc_basic_metrics, so the face enters neither the distance matrix nor
\* create_texture_image.
C20_DegenerateFaceFails ==
    building # NoBuilding =>
        \A f \in FaceIds :
            Degenerate(f) =>
                /\ f \notin DOMAIN surfaces
                /\ f \notin DOMAIN nkmap
                /\ f \notin DOMAIN gridsizes
-----------------------------------------------------------------------------
(* The face records of the mesh file.  A ring of the model is ring[:-1] of  *)
(* the source, the ring without its closing vertex.                         *)

\* C21: in the mesh file read back, the record of face f has one triple per
\* vertex of the ring of f, in the order of the ring: the first index is
\* between 1 and the number of v records and leads to the printed vertex,
\* the second is between 1 and the number of vt records and leads to the
\* texture coordinates of the vertex, and the third is f + 1, the position
\* of the face, which is between 1 and the number of vn records.
C21_FaceRecords ==
    pc \in {"write_mtl", "done"} =>
        \E lines \in {ObjLines} :
            \E v \in {Records(lines, "v")}, vt \in {Records(lines, "vt")},
               vn \in {Records(lines, "vn")}, fs \in {Records(lines, "f")} :
                /\ Len(fs) = nfaces
                /\ \A f \in FaceIds :
                      \E tc \in {TextureCoords(f)} :
                          /\ Len(fs[f + 1].val) = Len(building[f])
                          /\ \A i \in 1 .. Len(building[f]) :
                                \E t \in {fs[f + 1].val[i]} :
                                    /\ t[1] \in 1 .. Len(v)
                                    /\ t[2] \in 1 .. Len(vt)
                                    /\ t[3] = f + 1
                                    /\ t[3] \in 1 .. Len(vn)
                                    /\ v[t[1]].val =
                                           <<Fmt4(building[f][i][1]),
                                             Fmt4(building[f][i][2]),
                                             Fmt4(building[f][i][3])>>
                                    /\ vt[t[2]].val = tc[i]

\* the mesh file is written, and a triple of the last face names the last
\* normal, a vertex that is not the last of the v records and a texture
\* coordinate that is not the last of the vt records
C21_Witness ==
    /\ pc = "write_mtl"
    /\ nfaces = 6
    /\ \E i \in 1 .. Len(building[nfaces - 1]) :
          \E t \in {objfile.faces[nfaces - 1].f[i]} :
              /\ t[3] = Cardinality(DOMAIN objfile.vn)
              /\ t[1] < Len(objfile.v)
              /\ t[2] < Len(objfile.vt)
-----------------------------------------------------------------------------
(* The map from faces to rows of the distance matrix *)

\* face f has no point near it: the cloud is empty, or every distance value
\* of f, with the penalty of lod 1 for the first and the last face, is more
\* than 10 units
Excluded(f) ==
    \/ npoints = 0
    \/ \A p \in PointIds :
          DistanceValue(f, p)
              + (IF lod = 1 /\ (f = 0 \/ f = nfaces - 1) THEN Sentinel ELSE 0)
            > ProximityLimit

\* the faces among s that have a row
Rows(s) == {f \in s : nkmap[f] # None}

\* C22: the map from faces to rows has one entry for each face the loop has
\* passed, all faces after the loop, in face order: None for an excluded
\* face, and for a surviving face the number of surviving faces before it,
\* so that the rows are 0, 1, 2, ... in face order; and the distance matrix
\* has one row for each surviving face, the distances of that face.
C22_FaceRowMap ==
    /\ pc = "distances" => DOMAIN nkmap = 0 .. (n - 1)
    /\ Assigned => DOMAIN nkmap = FaceIds
    /\ \A f \in DOMAIN nkmap :
          /\ nkmap[f] = None <=> Excluded(f)
          /\ nkmap[f] # None =>
                /\ nkmap[f] = Cardinality(Rows(0 .. (f - 1)))
                /\ nkmap[f] \in DOMAIN distance_matrix
    /\ DOMAIN distance_matrix = 0 .. (Cardinality(Rows(DOMAIN nkmap)) - 1)

\* an excluded face lies between two surviving faces, whose rows follow
\* each other
C22_Witness ==
    /\ Assigned
    /\ \E f, g, h \in DOMAIN nkmap :
          /\ f < g /\ g < h
          /\ nkmap[f] # None
          /\ nkmap[g] = None
          /\ nkmap[h] = nkmap[f] + 1
          /\ Cardinality(DOMAIN distance_matrix) < nfaces - 2
-----------------------------------------------------------------------------
(* The first and the last face when lod is 1 *)

\* face f is the first or the last face of the building
FirstOrLast(f) == f = 0 \/ f = nfaces - 1

\* C24 (as stated): when lod is 1 the first and the last face are given the
\* gray placeholder and no point is painted on them, under every method.
C24_CapsNeverTextured ==
    lod = 1 =>
        \A f \in DOMAIN texture_images :
            FirstOrLast(f) =>
                texture_images[f] = NoTexture /\ painted[f] = {}

\* C24 (amended): when lod is 1 and the method is nearest or smart, the
\* first and the last face are given the gray placeholder and no point is
\* painted on them; under method all they are painted, like every face,
\* with every point that projects inside their bounding box.
C24_CapsNeverTexturedUnlessAll ==
    lod = 1 =>
        \A f \in DOMAIN texture_images :
            FirstOrLast(f) =>
                IF method = "all"
                THEN /\ painted[f] = {p \in PointIds : InBounds(f, p)}
                     /\ texture_images[f] = NoTexture <=> painted[f] = {}
                ELSE texture_images[f] = NoTexture /\ painted[f] = {}

\* under nearest or smart the last face got the placeholder although a point
\* inside its bounding box is within 10 units of it, while a wall was painted
C24_Witness ==
    /\ lod = 1
    /\ method # "all"
    /\ pc = "done"
    /\ texture_images[nfaces - 1] = NoTexture
    /\ \E p \in PointIds : DistanceValue(nfaces - 1, p) <= ProximityLimit
    /\ \E f \in FaceIds : painted[f] # {}
-----------------------------------------------------------------------------
(* The points that colour a face *)

\* the in-plane projection q of a point lies in the box b, borders included
InsideBox(q, b) ==
    /\ b[1] <= q[1] /\ q[1] <= b[3]
    /\ b[2] <= q[2] /\ q[2] <= b[4]

\* the projection q lies on the border of the box b
OnBorder(q, b) ==
    /\ InsideBox(q, b)
    /\ q[1] \in {b[1], b[3]} \/ q[2] \in {b[2], b[4]}

\* C25: under every method the points painted on a face are the points of
\* the mask handed to create_texture_image whose projection lies inside the
\* bounding box of the face, borders included (under method all the mask is
\* the whole cloud); the face gets the placeholder when there is no such
\* point and a texture of its own otherwise.
C25_OnlyPointsInBox ==
    \A f \in DOMAIN texture_images :
        \E b \in {boundary(f)}, q \in {get_projected_points(f)} :
            /\ painted[f] = {p \in masks[f] : InsideBox(q[p], b)}
            /\ method = "all" => masks[f] = PointIds
            /\ texture_images[f] = NoTexture <=> painted[f] = {}
            /\ painted[f] # {} =>
                  texture_images[f] = FaceTexture(f) /\ FaceTexture(f) \in files

\* a face is painted with a point on the border of its bounding box while
\* another point of its mask, outside the box, is not painted on it
C25_Witness ==
    \E f \in DOMAIN texture_images :
        \E b \in {boundary(f)}, q \in {get_projected_points(f)} :
            /\ \E p \in painted[f] : OnBorder(q[p], b)
            /\ \E p \in masks[f] : ~InsideBox(q[p], b) /\ p \notin painted[f]
            /\ texture_images[f] = FaceTexture(f)
-----------------------------------------------------------------------------
(* api.match_features_generator, lines 133-213, one step per resumption of *)
(* the generator.  A feature of the request is held as its relation to     *)
(* each Plateau building, which is what join_table_with_plateau computes   *)
(* from the two polygons; the strings it yields are held as records.       *)

\* the features of one request, at most
MaxFeatures == 4

\* the chunk size of match_features_generator, scaled down from 4096
size == 2

\* the bldid of the buildings of the Plateau table
Bldids == {1, 2}

\* database.py:231-248: the pairs of the join that sql2 keeps are those with
\* intersection_area / source_area > 0.4 or intersection_area / plateau_area
\* > 0.4 (is_overlapped) and those with dist < 10.0 and a similar area
Relations == {"overlapped", "near", "apart"}

Features == [Bldids -> Relations]

FeatureLists == UNION {[1 .. k -> Features] : k \in 0 .. MaxFeatures}

\* a local name of the generator that no statement has bound yet
Unbound == None

\* lines 146 and 212: the two literals around the features
Opening == [text |-> "{\"type\":\"FeatureCollection\",\"features\":["]

Closing == [text |-> "]}"]

\* lines 199-202: the two separators
Newline == [text |-> "\n"]

CommaNewline == [text |-> ",\n"]

\* lines 171-204: json.dumps(feature), by the properties that tell features
\* apart: the building, the confidence, the feature of the request
Dumps(row, confidence) ==
    [type |-> "Feature", plateau_bldid |-> row.plateau_bldid,
     confidence |-> confidence, src |-> row.src]

\* lines 156-162 and database.py:231-244: the rows of the join of the
\* features n .. n + size - 1 with the Plateau table
Joined(features, from) ==
    LET chunk == {k \in 1 .. Len(features) : from < k /\ k <= from + size}
        pairs == {p \in chunk \X Bldids : features[p[1]][p[2]] # "apart"}
    IN  {[plateau_bldid |-> p[2],
          is_overlapped |-> features[p[1]][p[2]] = "overlapped",
          src |-> p[1]] : p \in pairs}

\* database.py:245-247: ORDER BY plateau_bldid ASC, is_overlapped DESC
Before(r, s) ==
    \/ r.plateau_bldid < s.plateau_bldid
    \/ r.plateau_bldid = s.plateau_bldid /\ r.is_overlapped /\ ~s.is_overlapped

\* the orders in which the database may return the rows: rows that the
\* ORDER BY clause does not tell apart come in any order
RECURSIVE Ordered(_)
Ordered(rows) ==
    IF rows = {} THEN {<<>>}
    ELSE UNION {{<<r>> \o t : t \in Ordered(rows \ {r})} :
                   r \in {r \in rows : \A s \in rows : ~Before(s, r)}}

\* database.py:159-249
join_table_with_plateau(features, from) == Ordered(Joined(features, from))

\* the generator before its first resumption
InitMatch ==
    /\ Loaded
    /\ files = {}
    /\ saves = 0
    /\ jobs = <<>>
    /\ rlimit = [soft |-> 2 * MAX_MEMORY, hard |-> 2 * MAX_MEMORY]
    /\ requests = <<>>
    /\ raster = [at |-> "idle"]
    /\ sheet = [at |-> "idle"]
    /\ \E features \in FeatureLists :
          matching = [at |-> "start", features |-> features, n |-> Unbound,
                      i |-> Unbound, results |-> <<>>, row |-> 0,
                      assigned |-> {}, out |-> <<>>, error |-> "none"]

MatchUnchanged ==
    /\ UNCHANGED jobvars
    /\ UNCHANGED <<files, saves, jobs, rlimit, requests, raster, sheet>>

\* lines 146-148: the opening literal; assigned = set()
YieldOpening ==
    /\ matching.at = "start"
    /\ matching' = [matching EXCEPT !.at = "chunk", !.out = <<Opening>>,
                                    !.assigned = {}]
    /\ MatchUnchanged

\* line 150: the value range(0, len(features), size) binds to n next
NextN == IF matching.n = Unbound THEN 0 ELSE matching.n + size

\* lines 150-162: the next chunk is registered and joined
JoinChunk ==
    /\ matching.at = "chunk"
    /\ NextN < Len(matching.features)
    /\ \E results \in join_table_with_plateau(matching.features, NextN) :
          matching' = [matching EXCEPT !.at = "rows", !.n = NextN,
                                       !.results = results, !.row = 0]
    /\ MatchUnchanged

\* line 199: the feature is taken for the first of the response
IsFirst(n_, i_) == n_ + i_ = 0

\* lines 164-204: one row of the join, up to the continue statement or to
\* the two yield statements
MatchRow ==
    /\ matching.at = "rows"
    /\ matching.row < Len(matching.results)
    /\ LET i_ == matching.row
           r == matching.results[i_ + 1]
           confidence == IF r.is_overlapped THEN "high" ELSE "low"
           assigned == IF r.is_overlapped
                       THEN matching.assigned \cup {r.plateau_bldid}
                       ELSE matching.assigned
           skipped == ~r.is_overlapped /\ r.plateau_bldid \in matching.assigned
           separator == IF IsFirst(matching.n, i_) THEN Newline
                        ELSE CommaNewline
       IN  matching' = [matching EXCEPT
               !.i = i_,
               !.row = i_ + 1,
               !.assigned = assigned,
               !.out = IF skipped THEN @
                       ELSE @ \o <<separator, Dumps(r, confidence)>>]
    /\ MatchUnchanged

\* lines 206-210: the rows are exhausted and the table is dropped
DropTable ==
    /\ matching.at = "rows"
    /\ matching.row = Len(matching.results)
    /\ matching' = [matching EXCEPT !.at = "chunk"]
    /\ MatchUnchanged

\* line 212: the chunks are exhausted and the closing literal is yielded
YieldClosing ==
    /\ matching.at = "chunk"
    /\ NextN >= Len(matching.features)
    /\ matching' = [matching EXCEPT !.at = "closed", !.out = @ \o <<Closing>>]
    /\ MatchUnchanged

\* line 213: n + i is evaluated for the log message, then the generator
\* returns; a name that is not bound raises UnboundLocalError
Return ==
    /\ matching.at = "closed"
    /\ matching' =
          IF matching.n = Unbound \/ matching.i = Unbound
          THEN [matching EXCEPT !.at = "raised",
                                !.error = "UnboundLocalError"]
          ELSE [matching EXCEPT !.at = "returned"]
    /\ MatchUnchanged

NextMatch ==
    \/ YieldOpening
    \/ JoinChunk
    \/ MatchRow
    \/ DropTable
    \/ YieldClosing
    \/ Return

SpecMatch == InitMatch /\ [][NextMatch]_vars
-----------------------------------------------------------------------------
(* The response of building2d *)

\* the features among the strings yielded so far
Emitted == {k \in DOMAIN matching.out : "type" \in DOMAIN matching.out[k]}

\* the generator has yielded its last string
Closed == matching.at \in {"closed", "returned", "raised"}

\* C27: the strings yielded concatenate to a well-formed FeatureCollection:
\* the opening literal, the features, each after one separator, which is
\* without a comma before the first feature and with one comma before every
\* other feature, and the closing literal.
C27_WellFormed ==
    Closed =>
        LET out == matching.out
            body == SubSeq(out, 2, Len(out) - 1)
        IN  /\ out[1] = Opening
            /\ out[Len(out)] = Closing
            /\ Len(body) % 2 = 0
            /\ \A k \in 1 .. Len(body) \div 2 :
                  /\ body[2 * k - 1] = IF k = 1 THEN Newline ELSE CommaNewline
                  /\ "type" \in DOMAIN body[2 * k]

\* C28: the generator never raises: after the closing literal it returns,
\* also when the list of features is empty or no row matches.
C28_NeverRaises == matching.at # "raised"

\* C29: within one response no building is emitted both with confidence
\* high and with confidence low.
C29_HighNeverLow ==
    \A j, k \in Emitted :
        matching.out[j].plateau_bldid = matching.out[k].plateau_bldid =>
            ~(/\ matching.out[j].confidence = "high"
              /\ matching.out[k].confidence = "low")
-----------------------------------------------------------------------------
(* zukaku.get_code and zukaku.get_extent.  A code is held as the sequence  *)
(* of the code points of its characters (48 is "0", 65 is "A").  What      *)
(* get_extent returns is held in tenths, coordinates and level alike,      *)
(* since dy / 20 and level / 20 are not whole for a sheet of level 250.    *)

Metre == 10

IsDigit(c) == 48 <= c /\ c < 58

\* line 28: the classes [A-Z] and [0-9A-T] of the pattern
IsUpper(c) == 65 <= c /\ c <= 90

InNumbers(c) == IsDigit(c) \/ (65 <= c /\ c <= 84)

\* line 28: ([0-9A-T]*), the longest run at the head of s
RECURSIVE Run(_)
Run(s) ==
    IF s # <<>> /\ InNumbers(s[1]) THEN <<s[1]>> \o Run(Tail(s)) ELSE <<>>

\* lines 28-29: re.match and m.groups(); matched is FALSE when re.match
\* returns None
Groups(code) ==
    LET system == Len(code) >= 2 /\ IsDigit(code[1]) /\ IsDigit(code[2])
        rest == IF system THEN SubSeq(code, 3, Len(code)) ELSE code
    IN  IF Len(rest) >= 2 /\ IsUpper(rest[1]) /\ IsUpper(rest[2])
        THEN [matched |-> TRUE,
              system_code |-> IF system THEN SubSeq(code, 1, 2) ELSE <<>>,
              kukaku |-> SubSeq(rest, 1, 2),
              numbers |-> Run(SubSeq(rest, 3, Len(rest)))]
        ELSE [matched |-> FALSE]

\* lines 33-36: the sheet of level 50000
Extent50000(kukaku) ==
    [x0 |-> (-160 + (kukaku[2] - 65) * 40) * 1000 * Metre,
     y0 |-> (300 - (kukaku[1] - 65) * 30) * 1000 * Metre,
     dx |-> 40000 * Metre, dy |-> 30000 * Metre, level |-> 50000 * Metre]

\* lines 38-43
Extent5000(e, numbers) ==
    IF Len(numbers) >= 2
    THEN [x0 |-> e.x0 + (numbers[2] - 48) * 4000 * Metre,
          y0 |-> e.y0 - (numbers[1] - 48) * 3000 * Metre,
          dx |-> 4000 * Metre, dy |-> 3000 * Metre, level |-> 5000 * Metre]
    ELSE e

\* lines 45-54: "2" is 50, "3" is 51, "4" is 52
Extent2500(e, numbers) ==
    IF Len(numbers) = 3
    THEN [x0 |-> e.x0 + IF numbers[3] \in {50, 52} THEN 2000 * Metre ELSE 0,
          y0 |-> e.y0 - IF numbers[3] \in {51, 52} THEN 1500 * Metre ELSE 0,
          dx |-> 2000 * Metre, dy |-> 1500 * Metre, level |-> 2500 * Metre]
    ELSE e

\* lines 56-77
Extent1000(e, numbers) ==
    IF Len(numbers) < 4 THEN e
    ELSE IF IsDigit(numbers[3])
    THEN IF numbers[4] >= 65 /\ numbers[4] < 70
         THEN [x0 |-> e.x0 + (numbers[4] - 65) * 800 * Metre,
               y0 |-> e.y0 - (numbers[3] - 48) * 600 * Metre,
               dx |-> 800 * Metre, dy |-> 600 * Metre,
               level |-> 1000 * Metre]
         ELSE IF IsDigit(numbers[4])
         THEN [x0 |-> e.x0 + (numbers[4] - 48) * 400 * Metre,
               y0 |-> e.y0 - (numbers[3] - 48) * 300 * Metre,
               dx |-> 400 * Metre, dy |-> 300 * Metre,
               level |-> 500 * Metre]
         ELSE e
    ELSE IF numbers[3] >= 65 /\ numbers[3] < 85
    THEN [x0 |-> e.x0 + (numbers[4] - 65) * 200 * Metre,
          y0 |-> e.y0 - (numbers[3] - 65) * 150 * Metre,
          dx |-> 200 * Metre, dy |-> 150 * Metre, level |-> 250 * Metre]
    ELSE e

\* lines 79-88: ord(numbers[4]) is an int and never in ('2', '4') or in
\* ('3', '4'), so neither x0 nor y0 moves
ExtentHalf(e, numbers) ==
    IF Len(numbers) = 5
    THEN [e EXCEPT !.dx = @ \div 2, !.dy = @ \div 2, !.level = @ \div 2]
    ELSE e

\* one of the three divisions of lines 93-97, 100-104 and 107-111
Divided(e, k, column, row) ==
    [x0 |-> e.x0 + column * (e.dx \div k),
     y0 |-> e.y0 - row * (e.dy \div k),
     dx |-> e.dx \div k, dy |-> e.dy \div k, level |-> e.level \div k]

\* lines 90-111
ExtentDivided(e, numbers) ==
    IF Len(numbers) # 6 THEN e
    ELSE IF IsDigit(numbers[5])
    THEN IF numbers[6] >= 65 /\ numbers[6] < 70
         THEN Divided(e, 5, numbers[6] - 65, numbers[5] - 48)
         ELSE IF IsDigit(numbers[6])
         THEN Divided(e, 10, numbers[6] - 48, numbers[5] - 48)
         ELSE e
    ELSE IF numbers[5] >= 65 /\ numbers[5] < 85
    THEN Divided(e, 20, numbers[6] - 65, numbers[5] - 65)
    ELSE e

\* lines 113-116: int(system_code), or None
Crs(system_code) ==
    IF system_code # <<>>
    THEN 6668 + (system_code[1] - 48) * 10 + (system_code[2] - 48)
    ELSE None

\* lines 13-118; raised when m is None and m.groups() fails
get_extent(code) ==
    LET m == Groups(code)
        e == ExtentDivided(ExtentHalf(Extent1000(Extent2500(Extent5000(
                 Extent50000(m.kukaku), m.numbers), m.numbers), m.numbers),
                 m.numbers), m.numbers)
    IN  IF ~m.matched THEN [raised |-> "AttributeError"]
        ELSE [raised |-> "none",
              min_x |-> e.x0, min_y |-> e.y0 - e.dy,
              max_x |-> e.x0 + e.dx, max_y |-> e.y0,
              crs |-> Crs(m.system_code), level |-> e.level]

\* lines 179-181: '{:02d}'.format(system_code), of a code below 100
SystemPrefix(system_code) ==
    IF system_code # None /\ system_code # 0
    THEN <<48 + system_code \div 10, 48 + (system_code % 10)>>
    ELSE <<>>

\* line 219: the first character of the sheet of level 1000
RowOf1000(y) == 548 + y \div 600

\* lines 202-213
Quadrant(x, y) ==
    IF x < 2000 THEN (IF y < 1500 THEN 49 ELSE 51)
    ELSE (IF y < 1500 THEN 50 ELSE 52)

\* lines 154-241, for whole x and y
get_code(x_, y_, system_code, level) ==
    LET x == x_
        y == -y_
        kukaku == <<75 + y \div 30000, 69 + x \div 40000>>
        x1 == x % 40000
        y1 == y % 30000
        code5000 == <<48 + y1 \div 3000, 48 + x1 \div 4000>>
        x2 == x1 % 4000
        y2 == y1 % 3000
        code500 == <<48 + y2 \div 300, 48 + x2 \div 400>>
        x3 == x2 % 400
        y3 == y2 % 300
        head == SystemPrefix(system_code) \o kukaku
        Return_(code) == [raised |-> "none", code |-> code]
    IN  IF Abs(x_) >= 160000 \/ Abs(y_) >= 300000
        THEN [raised |-> "ValueError", code |-> <<>>]
        ELSE IF level > 5000 THEN Return_(head)
        ELSE IF level > 2500 THEN Return_(head \o code5000)
        ELSE IF level = 2500
        THEN Return_(head \o code5000 \o <<Quadrant(x2, y2)>>)
        ELSE IF level = 1000
        THEN Return_(head \o code5000 \o <<RowOf1000(y2), 65 + x2 \div 800>>)
        ELSE IF level = 250
        THEN Return_(head \o code5000
                     \o <<65 + y2 \div 150, 65 + x2 \div 200>>)
        ELSE IF level = 500 THEN Return_(head \o code5000 \o code500)
        ELSE IF level = 50
        THEN Return_(head \o code5000 \o code500
                     \o <<48 + y3 \div 30, 48 + x3 \div 40>>)
        ELSE [raised |-> "ValueError", code |-> <<>>]

\* the levels get_code names in its error message
Levels == {5000, 2500, 1000, 500, 250, 50}

\* the levels of the calls: the supported ones, the sheet of level 50000
\* and a level that is not supported
CallLevels == Levels \cup {50000, 100}

\* the coordinate system of the call: none, or system 9
SystemCodes == {None, 9}

\* X of the calls: both ends of the range, the first value out of it, and
\* values at and next to the borders of the sheets of each level
XValues ==
    {-160000, -159999, -120001, -120000, -40001, -40000, -4000, -401, -400,
     -41, -40, -1, 0, 1, 39, 40, 199, 200, 399, 400, 799, 800, 1999, 2000,
     3999, 4000, 39999, 40000, 123456, 159999}

\* Y of the calls, likewise
YValues ==
    {-300000, -299999, -30001, -30000, -3000, -301, -300, -31, -30, -1, 0, 1,
     29, 30, 149, 150, 299, 300, 599, 600, 1499, 1500, 2999, 3000, 29999,
     30000, 234567, 299999}

InitSheet ==
    /\ Loaded
    /\ files = {}
    /\ saves = 0
    /\ jobs = <<>>
    /\ rlimit = [soft |-> 2 * MAX_MEMORY, hard |-> 2 * MAX_MEMORY]
    /\ requests = <<>>
    /\ matching = [at |-> "idle"]
    /\ raster = [at |-> "idle"]
    /\ \E x \in XValues, y \in YValues, s \in SystemCodes, l \in CallLevels :
          sheet = [at |-> "start", x |-> x, y |-> y, system_code |-> s,
                   level |-> l, code |-> <<>>, raised |-> "none",
                   extent |-> <<>>]

SheetUnchanged ==
    /\ UNCHANGED jobvars
    /\ UNCHANGED <<files, saves, jobs, rlimit, requests, matching, raster>>

\* the call get_code(x, y, system_code, level)
GetCode ==
    /\ sheet.at = "start"
    /\ \E r \in {get_code(sheet.x, sheet.y, sheet.system_code, sheet.level)} :
          sheet' = [sheet EXCEPT
                       !.at = IF r.raised = "none" THEN "coded" ELSE "raised",
                       !.raised = r.raised,
                       !.code = r.code]
    /\ SheetUnchanged

\* the call get_extent(code) with the code that was returned
GetExtent ==
    /\ sheet.at = "coded"
    /\ \E e \in {get_extent(sheet.code)} :
          sheet' = [sheet EXCEPT
                       !.at = IF e.raised = "none" THEN "extent" ELSE "raised",
                       !.raised = e.raised,
                       !.extent = e]
    /\ SheetUnchanged

NextSheet == GetCode \/ GetExtent

SpecSheet == InitSheet /\ [][NextSheet]_vars

-----------------------------------------------------------------------------
(* The sheet of a point *)

\* C30: for every supported level and every whole point of the range, the
\* extent of the code that get_code returns is a rectangle of that level
\* that contains the point.
C30_CodeContainsPoint ==
    sheet.at = "extent" /\ sheet.level \in Levels =>
        /\ sheet.extent.level = sheet.level * Metre
        /\ sheet.extent.min_x <= sheet.x * Metre
        /\ sheet.x * Metre <= sheet.extent.max_x
        /\ sheet.extent.min_y <= sheet.y * Metre
        /\ sheet.y * Metre <= sheet.extent.max_y
-----------------------------------------------------------------------------
(* Surface.create_texture_image, lines 759-811: the raster of one face     *)
(* whose masked subset is not empty.  Positions in the plane of the face   *)
(* are in millimetres, a colour component c is held as c * 65536.          *)

\* the samples of one raster, at most
MaxSamples == 2

\* the component 1.0
One == 65536

\* pointcloud.py:53-55 and 137-142: colours of the points: an intensity of
\* 1 copied to the three components, a colour read as red / 65536.0 and so
\* on, another such colour
Colours == {<<One, One, One>>, <<65535, 32768, 0>>, <<32768, 128, 255>>}

\* line 804: the value of the three components of a cell without sample
Gray == 128

\* the imagesize of the requests, the long side of the texture in pixels
RasterImageSizes == {2, 3, 5}

\* Build3d.gridsize: GRIDSIZE, or GRIDSIZE after sixteen rounds of the loop
\* of get_pointcloud
RasterBuildGridSizes == {GRIDSIZE, 256 * GRIDSIZE}

\* a building whose top is twice as long as it is wide
RasterBuildings == {Box(40, 20, 20)}

\* the faces that are rasterized: a wall and the top
RasterFaces == {1, 5}

\* a length of the model of the building, in millimetres
Millimetres(t) == t * 100

\* lines 735-738: gridsize of a face with the boundary b, in millimetres
RasterGrid(b) ==
    SetMax({Millimetres(b[3] - b[1]) \div (EffectiveImageSize - 1),
            Millimetres(b[4] - b[2]) \div (EffectiveImageSize - 1),
            gridsize \div 1000})

\* line 786: filtered_points[:, 0:2]
XYArray(f, sel) ==
    LET qs == get_projected_points(f)
    IN  [p \in sel |-> <<qs[p][1], qs[p][2]>>]

\* line 787: int((maxx - minx) / gridsize) + 1
RasterWidth(b, g) == Millimetres(b[3] - b[1]) \div g + 1

\* line 788: int((maxy - miny) / gridsize) + 1
RasterHeight(b, g) == Millimetres(b[4] - b[2]) \div g + 1

\* lines 789-790: np.linspace(start, stop, num)[i]
Linspace(start, stop, num, i) ==
    IF num = 1 THEN start ELSE start + (i * (stop - start)) \div (num - 1)

\* lines 791 and 802: the cells (row, column) of the meshgrid
Cells(b, g) == (0 .. RasterHeight(b, g) - 1) \X (0 .. RasterWidth(b, g) - 1)

\* lines 789-791: (xx, yy) of a cell
CellPosition(b, g, cell) ==
    <<Linspace(Millimetres(b[1]), Millimetres(b[3]), RasterWidth(b, g),
               cell[2]),
      Linspace(Millimetres(b[2]), Millimetres(b[4]), RasterHeight(b, g),
               cell[1])>>

\* the square of the distance of a position to the sample q, a projected
\* point
SquaredDistance(pos, q) ==
    (pos[1] - Millimetres(q[1])) * (pos[1] - Millimetres(q[1]))
    + (pos[2] - Millimetres(q[2])) * (pos[2] - Millimetres(q[2]))

\* lines 792-796 and 801-803: the sample the kd-tree finds for a position;
\* of several samples at the same distance it returns one, here the first
\* or the last
Query(pos, qs, sel, tie) ==
    LET nearest == {p \in sel : \A o \in sel :
                       SquaredDistance(pos, qs[p]) <= SquaredDistance(pos, qs[o])}
    IN  IF tie = "first" THEN SetMin(nearest) ELSE SetMax(nearest)

\* line 796: (c * 256).astype(np.uint8).  The conversion of a float that
\* uint8 cannot hold is undefined: the build wraps it or saturates it.
ToByte(c, cast) ==
    LET v == (c * 256) \div One
    IN  IF v <= 255 THEN v
        ELSE IF cast = "wrap" THEN v % 256 ELSE 255

\* variant: a cell is left alone up to one gridsize from its sample
DataGapOne(d2, g) == d2 > g * g

\* line 804: dists > gridsize * 2
DataGap(d2, g) == d2 > 4 * g * g

\* create_texture_image at line 786, for one face of a building with its
\* cloud under the method all, whose mask is the whole cloud: the locals
\* boundary, filtered_points, filtered_colors and gridsize have their values
InitRaster ==
    /\ db \in RasterBuildings
    /\ building = db
    /\ lod = 2
    /\ method = "all"
    /\ lasdata \in {c \in Clouds : Len(c) <= MaxSamples}
    /\ limit = << >>
    /\ pcd = [loaded |-> TRUE, points |-> lasdata]
    /\ pc = "texture_all"
    /\ NoLocals
    /\ response = NoResponse
    /\ files = {}
    /\ saves = 0
    /\ jobs = <<>>
    /\ rlimit = [soft |-> MAX_MEMORY, hard |-> 2 * MAX_MEMORY]
    /\ requests = <<>>
    /\ matching = [at |-> "idle"]
    /\ sheet = [at |-> "idle"]
    /\ \E f \in RasterFaces :
          \E b \in {boundary(f)}, sel \in {FilteredPoints(f, PointIds)} :
             /\ sel # {}
             /\ imagesize \in RasterImageSizes
             /\ gridsize \in RasterBuildGridSizes
             /\ \E xyarray \in {XYArray(f, sel)}, g \in {RasterGrid(b)},
                   filtered_colors \in [sel -> Colours],
                   cast \in {"wrap", "saturate"}, tie \in {"first", "last"} :
                   raster = [at |-> "start", face |-> f, boundary |-> b,
                             gridsize |-> g, xyarray |-> xyarray,
                             filtered_colors |-> filtered_colors,
                             cast |-> cast, tie |-> tie,
                             indexes |-> <<>>, rgbarray |-> <<>>]

RasterUnchanged ==
    /\ UNCHANGED jobvars
    /\ UNCHANGED <<saves, jobs, rlimit, requests, matching, sheet>>

\* lines 786-796: griddata(..., method='nearest') * 256 as uint8
Griddata ==
    /\ raster.at = "start"
    /\ LET b == raster.boundary
           g == raster.gridsize
       IN  \E indexes \in {[cell \in Cells(b, g) |->
                               Query(CellPosition(b, g, cell), raster.xyarray,
                                     DOMAIN raster.xyarray, raster.tie)]} :
              raster' = [raster EXCEPT
                  !.at = "interpolated",
                  !.indexes = indexes,
                  !.rgbarray =
                      [cell \in Cells(b, g) |->
                          [k \in 1 .. 3 |->
                              ToByte(raster.filtered_colors[indexes[cell]][k],
                                     raster.cast)]]]
    /\ UNCHANGED files
    /\ RasterUnchanged

\* lines 801-804: rgbarray[dists > gridsize * 2] = 128
FillGaps ==
    /\ raster.at = "interpolated"
    /\ LET b == raster.boundary
           g == raster.gridsize
       IN  raster' = [raster EXCEPT
               !.at = "filled",
               !.rgbarray =
                   [cell \in Cells(b, g) |->
                       IF DataGap(SquaredDistance(
                                      CellPosition(b, g, cell),
                                      raster.xyarray[raster.indexes[cell]]), g)
                       THEN [k \in 1 .. 3 |-> Gray]
                       ELSE raster.rgbarray[cell]]]
    /\ UNCHANGED files
    /\ RasterUnchanged

\* lines 807-811: the image is saved
SaveImage ==
    /\ raster.at = "filled"
    /\ raster' = [raster EXCEPT !.at = "saved"]
    /\ files' = files \cup {FaceTexture(raster.face)}
    /\ RasterUnchanged

NextRaster == Griddata \/ FillGaps \/ SaveImage

SpecRaster == InitRaster /\ [][NextRaster]_vars
-----------------------------------------------------------------------------
(* The texture of a face with samples *)

\* the raster has been cut at the data gaps (line 804 has run)
Filled == raster.at \in {"filled", "saved"}

\* the square of the distance of a cell to the nearest sample
NearestSquared(cell) ==
    SetMin({SquaredDistance(
                CellPosition(raster.boundary, raster.gridsize, cell),
                raster.xyarray[p]) : p \in DOMAIN raster.xyarray})

\* the cell holds the colour of the sample p, as bytes
HoldsColourOf(cell, p) ==
    \A k \in 1 .. 3 :
        raster.rgbarray[cell][k] =
            ToByte(raster.filtered_colors[p][k], raster.cast)

IsGray(cell) == \A k \in 1 .. 3 : raster.rgbarray[cell][k] = Gray

\* C23: every cell of the raster of a face with samples holds the colour of
\* one sample, a sample nearest to the position of the cell, and no blend
\* of several; a cell whose nearest sample is farther away than twice the
\* gridsize of the raster is gray instead.
C23_NearestSampleOrGray ==
    Filled =>
        /\ DOMAIN raster.rgbarray = Cells(raster.boundary, raster.gridsize)
        /\ \A cell \in DOMAIN raster.rgbarray :
              \E d2 \in {NearestSquared(cell)} :
                 IF d2 > (2 * raster.gridsize) * (2 * raster.gridsize)
                 THEN IsGray(cell)
                 ELSE \E p \in DOMAIN raster.xyarray :
                         /\ SquaredDistance(
                                CellPosition(raster.boundary, raster.gridsize,
                                             cell),
                                raster.xyarray[p]) = d2
                         /\ HoldsColourOf(cell, p)

\* a raster with a gray cell and with a cell that lies between one and two
\* gridsizes from its nearest sample and holds the colour of that sample,
\* not the different colour of the other sample
C23_Witness ==
    /\ Filled
    /\ \E cell \in DOMAIN raster.rgbarray :
          NearestSquared(cell) > 4 * raster.gridsize * raster.gridsize
    /\ \E cell \in DOMAIN raster.rgbarray, p, q \in DOMAIN raster.xyarray :
          /\ raster.filtered_colors[p] # raster.filtered_colors[q]
          /\ raster.indexes[cell] = p
          /\ NearestSquared(cell) > raster.gridsize * raster.gridsize
          /\ NearestSquared(cell) <= 4 * raster.gridsize * raster.gridsize
          /\ HoldsColourOf(cell, p)
          /\ ~HoldsColourOf(cell, q)

\* C26: the conversion of a colour to bytes never wraps around: for the
\* components c of the samples, all in [0, 1], the byte is in 0 .. 255,
\* does not decrease when c grows, and is 255 for c = 1.0.
C26_ByteNeverWraps ==
    raster.at = "interpolated" =>
        \A cell, other \in DOMAIN raster.rgbarray, k, j \in 1 .. 3 :
            \E c \in {raster.filtered_colors[raster.indexes[cell]][k]},
               o \in {raster.filtered_colors[raster.indexes[other]][j]} :
               /\ raster.rgbarray[cell][k] \in 0 .. 255
               /\ c = One => raster.rgbarray[cell][k] = 255
               /\ c <= o => raster.rgbarray[cell][k] <= raster.rgbarray[other][j]

====
